---- MODULE Spec2Model ----
(***************************************************************************)
(* The edit session of the AI fashion studio front end: the linear         *)
(* undo/redo history of useHistory.ts, the transform controls of           *)
(* ImageDisplay.tsx and the asynchronous flows of App.tsx (generate,       *)
(* remove background, finalize and download).                              *)
(*                                                                         *)
(* Zoom is kept in hundredths (1.0 is 100, the 0.1 step of the zoom        *)
(* buttons is 10).  Time is kept in milliseconds and advances in steps of  *)
(* TickMs.  An error message is kept as the kind of the error.             *)
(*                                                                         *)
(* Seven specifications share the variables:                               *)
(*   SpecHistory    useHistory driven directly with any value              *)
(*   Spec           the session: uploads, the three flows, the buttons of  *)
(*                  the control bar                                        *)
(*   SpecDisplay    the display of a generated image with all its          *)
(*                  controls: buttons, slider and the pan drag             *)
(*   SpecTransform  applyTransformationsToImage called on its own          *)
(*   SpecExport     the resolution and crop of the export step, run on     *)
(*                  its own                                                *)
(*   SpecResolution the export and settings dialogs driven with edits of   *)
(*                  the resolution                                         *)
(*   SpecColor      the same dialogs driven with edits of the colour       *)
(*                  grading                                                *)
(* Sizes computed by division are kept as exact fractions.                 *)
(* A handler runs on the latest render and to its end, or to its next      *)
(* await, before another one starts.                                       *)
(***************************************************************************)
EXTENDS Integers, Sequences, FiniteSets, TLC

\* ------------------------------------------------------------------ bounds
\* longest snapshot array the generic history is driven to
MaxHistory == 3
\* longest snapshot array built with the controls of the session; on the
\* display alone, the most snapshots added to those it starts with
MaxEdits == 2
\* the display alone starts after 0..MaxTurns quarter turns
MaxTurns == 3
\* the mouse is seen at the places (k, 2k), k in 0..MaxPointer
MaxPointer == 1
\* the slider is moved to 1 + 0.05*k, k in 0..MaxSliderStep, and to its end
MaxSliderStep == 1
\* widths and heights given to applyTransformationsToImage: -1..MaxSide for
\* the container, 0..MaxSide for the decoded image
MaxSide == 2
\* the generic history is driven with zoom values 100 + 10*k, k in 0..MaxZoomStep
MaxZoomStep == 1
\* ... and with rotations 90*k, k in 0..MaxRotStep
MaxRotStep == 1
\* the export is run on images of sides 1..MaxExportSide, beside the two of
\* the examples
MaxExportSide == 3
\* ... with custom widths and heights 0..MaxCustomSide, beside null and
\* those around the tolerance of the aspect ratio
MaxCustomSide == 2
\* a custom width or height is typed as 300*k, k in 0..MaxDimStep, or cleared
MaxDimStep == 2
\* number of distinct image values (uploads, generated images)
MaxImages == 1
\* finalize flows whose image element can be alive at the same time
MaxFlows == 2
\* one step of the clock
TickMs == 7500
\* the clock of a waiting flow is not advanced beyond this
MaxWaitMs == 22500

\* --------------------------------------------------------- program values
\* App.tsx: the 15 s timer of step 3 of handleFinalizeAndDownload
TimeoutMs == 15000
\* ImageDisplay.tsx: the zoom buttons clamp to [1, 3] and step by 0.1
MinZoom == 100
MaxZoom == 300
ZoomStep == 10
\* ImageDisplay.tsx: the slider has step 0.05
SliderStep == 5

NoImage == 0
Images == 1..MaxImages
NoError == "null"

VARIABLES
    history,               \* useHistory: the snapshot array
    index,                 \* useHistory: the current index (0-based, as in the code)
    last,                  \* the call the last step made on the history, and the
                           \* history it was made on
    sourceImage,           \* App: sourceImage
    generatedImage,        \* App: generatedImage
    isLoading,             \* App: busy flag of handleGenerate
    isEnhancing,           \* App: busy flag of handleFinalizeAndDownload
    isRemovingBackground,  \* App: busy flag of handleRemoveBackground
    error,                 \* App: error
    showExportModal,       \* App: showExportModal
    fin,                   \* the invocations of handleFinalizeAndDownload
    gen,                   \* the invocation of handleGenerate
    rb,                    \* the invocation of handleRemoveBackground
    done,                  \* the flow the last step ended, and how it ended
    isDragging,            \* ImageDisplay: isDragging
    dragStart,             \* ImageDisplay: dragStart
    transientPosition,     \* ImageDisplay: transientPosition
    bake,                  \* an invocation of applyTransformationsToImage
    appSettings,           \* App: appSettings.exportSettings
    showSettingsModal,     \* App: showSettingsModal
    localSettings,         \* SettingsModal: localSettings.exportSettings
    originalDimensions,    \* ExportModal: originalDimensions
    exported               \* an invocation of the export step (step 3)

histVars == <<history, index>>
appVars == <<sourceImage, generatedImage, isLoading, isEnhancing,
             isRemovingBackground, error, showExportModal, fin, gen, rb>>
dragVars == <<isDragging, dragStart, transientPosition>>
dialogVars == <<appSettings, showSettingsModal, localSettings, originalDimensions>>
vars == <<history, index, last, sourceImage, generatedImage, isLoading,
          isEnhancing, isRemovingBackground, error, showExportModal, fin, gen,
          rb, done, isDragging, dragStart, transientPosition, bake,
          appSettings, showSettingsModal, localSettings, originalDimensions,
          exported>>

\* ------------------------------------------------------- transform states
Transform(z, r, x, y) ==
    [zoom |-> z, rotation |-> r, position |-> [x |-> x, y |-> y]]

initialTransformState == Transform(100, 0, 0, 0)

\* The values the generic history is driven with.
TransformValues ==
    { Transform(MinZoom + ZoomStep * k, 90 * j, 0, 0) :
        k \in 0..MaxZoomStep, j \in 0..MaxRotStep }

\* JSON.stringify of a TransformationState: the members in insertion order.
\* Two snapshots are "deep-equal" for setState when these texts are equal.
JSONstringify(t) ==
    <<"zoom", t.zoom, "rotation", t.rotation,
      "position", <<"x", t.position.x, "y", t.position.y>> >>

\* ----------------------------------------------------------- useHistory.ts
state == history[index + 1]

canUndo == index > 0
canRedo == index < Len(history) - 1

NoCall == [op |-> "none"]
Call(op, arg) == [op |-> op, arg |-> arg, history |-> history, index |-> index]

NoDone == [op |-> "none"]

\* history.slice(0, n)
slice(h, n) == SubSeq(h, 1, n)

\* setState as it would be without the slice: the redo tail is kept.
setState_KeepsTail(newState) ==
    /\ last' = Call("setState", newState)
    /\ IF JSONstringify(newState) = JSONstringify(state)
       THEN UNCHANGED <<history, index>>
       ELSE LET newHistory == Append(history, newState)
            IN  /\ history' = newHistory
                /\ index' = Len(newHistory) - 1

\* setState as it would be without the comparison of the two texts.
setState_NoCompare(newState) ==
    /\ last' = Call("setState", newState)
    /\ LET newHistory == Append(slice(history, index + 1), newState)
       IN  /\ history' = newHistory
           /\ index' = Len(newHistory) - 1

\* setState as it would be if it compared with the first snapshot.
setState_ComparesFirst(newState) ==
    /\ last' = Call("setState", newState)
    /\ IF JSONstringify(newState) = JSONstringify(history[1])
       THEN UNCHANGED <<history, index>>
       ELSE LET newHistory == Append(slice(history, index + 1), newState)
            IN  /\ history' = newHistory
                /\ index' = Len(newHistory) - 1

setState(newState) ==
    /\ last' = Call("setState", newState)
    /\ IF JSONstringify(newState) = JSONstringify(state)
       THEN UNCHANGED <<history, index>>
       ELSE LET newHistory == Append(slice(history, index + 1), newState)
            IN  /\ history' = newHistory
                /\ index' = Len(newHistory) - 1

\* undo as it would be if it went back to the first snapshot.
undo_ToStart ==
    /\ last' = Call("undo", state)
    /\ IF index > 0 THEN index' = 0 ELSE index' = index
    /\ UNCHANGED history

\* undo as it would be if it dropped the snapshots after the new pointer.
undo_DropsTail ==
    /\ last' = Call("undo", state)
    /\ IF index > 0
       THEN index' = index - 1 /\ history' = slice(history, index)
       ELSE UNCHANGED <<history, index>>

\* undo as it would be without its test of the index.
undo_NoGuard ==
    /\ last' = Call("undo", state)
    /\ index' = index - 1
    /\ UNCHANGED history

undo ==
    /\ last' = Call("undo", state)
    /\ IF index > 0 THEN index' = index - 1 ELSE index' = index
    /\ UNCHANGED history

\* redo as it would be if it went on to the last snapshot.
redo_ToEnd ==
    /\ last' = Call("redo", state)
    /\ IF index < Len(history) - 1 THEN index' = Len(history) - 1 ELSE index' = index
    /\ UNCHANGED history

redo ==
    /\ last' = Call("redo", state)
    /\ IF index < Len(history) - 1 THEN index' = index + 1 ELSE index' = index
    /\ UNCHANGED history

\* reset as it would be if it went back to the first snapshot of the array.
reset_ToFirst(newState) ==
    /\ last' = Call("reset", newState)
    /\ history' = <<history[1]>>
    /\ index' = 0

reset(newState) ==
    /\ last' = Call("reset", newState)
    /\ history' = <<newState>>
    /\ index' = 0

\* The history driven directly, with any value, in any state; the snapshot
\* arrays are explored up to MaxHistory entries.
HistoryOnly ==
    /\ done' = NoDone
    /\ UNCHANGED appVars
    /\ UNCHANGED <<dragVars, bake, dialogVars, exported>>

Commit ==
    \E v \in TransformValues :
        setState(v) /\ Len(history') <= MaxHistory /\ HistoryOnly
Undo == undo /\ HistoryOnly
Redo == redo /\ HistoryOnly
Reset == \E v \in TransformValues : reset(v) /\ HistoryOnly

NoFlow == [pc |-> "idle", elapsed |-> 0, armed |-> FALSE, log |-> <<>>]
NoRequest == [pc |-> "idle", image |-> NoImage, history |-> <<>>, index |-> 0]
NoBake == [pc |-> "idle"]
NoExport == [pc |-> "idle"]

\* ------------------------------------------------------ App.tsx: settings
\* A number or null, as the width and height of ResolutionSettings are.
null == [isNull |-> TRUE, n |-> 0]
Number(n) == [isNull |-> FALSE, n |-> n]

\* The truth value JavaScript gives a number or null: null and 0 are falsy.
Truthy(v) == ~v.isNull /\ v.n # 0

\* exportSettings of getDefaultSettings(): the colour grading and the
\* resolution.  Format, quality and enhancement are not followed.
getDefaultSettings ==
    [colorGrading |-> [preset |-> "none", saturation |-> 100, contrast |-> 100,
                       brightness |-> 100, warmth |-> 0],
     resolution |-> [preset |-> "original", width |-> null, height |-> null,
                     aspectRatioLocked |-> TRUE]]

\* originalDimensions of ExportModal before the preview image has loaded
NoDimensions == [known |-> FALSE, width |-> 0, height |-> 0]

Init ==
    /\ history = <<initialTransformState>>
    /\ index = 0
    /\ last = NoCall
    /\ sourceImage = NoImage
    /\ generatedImage = NoImage
    /\ isLoading = FALSE
    /\ isEnhancing = FALSE
    /\ isRemovingBackground = FALSE
    /\ error = NoError
    /\ showExportModal = FALSE
    /\ fin = [f \in 1..MaxFlows |-> NoFlow]
    /\ gen = NoRequest
    /\ rb = NoRequest
    /\ done = NoDone
    /\ isDragging = FALSE
    /\ dragStart = [x |-> 0, y |-> 0]
    /\ transientPosition = initialTransformState.position
    /\ bake = NoBake
    /\ appSettings = getDefaultSettings
    /\ showSettingsModal = FALSE
    /\ localSettings = getDefaultSettings
    /\ originalDimensions = NoDimensions
    /\ exported = NoExport

NextHistory == Commit \/ Undo \/ Redo \/ Reset

SpecHistory == Init /\ [][NextHistory]_vars

\* C1: after any sequence of setState, undo, redo and reset on a history
\* created with one snapshot, the history is non-empty and
\* 0 <= index <= length - 1.
C1_IndexInRange == Len(history) >= 1 /\ 0 <= index /\ index <= Len(history) - 1

\* an undo at the start boundary and a history longer than one snapshot
C1_Witness == last.op = "undo" /\ last.index = 0 /\ index = 0 /\ Len(history) > 1

\* The head a call was made on.
HeadOf(call) == call.history[call.index + 1]

\* C3: setState(newState) with newState not deep-equal to the head, at pointer
\* p of history h, gives h[0..p] followed by newState with the pointer on the
\* new last entry; canRedo is false and a redo that follows changes nothing.
C3_CommitTruncates ==
    [][ /\ ( /\ last'.op = "setState"
             /\ JSONstringify(last'.arg) # JSONstringify(HeadOf(last')) )
           => /\ history' = Append(SubSeq(history, 1, index + 1), last'.arg)
              /\ index' = Len(history') - 1
              /\ index' = index + 1
              /\ ~canRedo'
        /\ ( /\ last.op = "setState"
             /\ JSONstringify(last.arg) # JSONstringify(HeadOf(last))
             /\ last'.op = "redo" )
           => (history' = history /\ index' = index) ]_vars

\* a commit made after an undo, which dropped a snapshot
C3_Witness ==
    /\ last.op = "setState"
    /\ JSONstringify(last.arg) # JSONstringify(HeadOf(last))
    /\ last.index < Len(last.history) - 1
    /\ Len(history) = last.index + 2

\* C4: setState(x) with x deep-equal to the head changes neither the
\* snapshots, nor their number, nor the pointer.
C4_NoOpCommit ==
    ( /\ last.op = "setState"
      /\ JSONstringify(last.arg) = JSONstringify(HeadOf(last)) )
    => (history = last.history /\ Len(history) = Len(last.history)
        /\ index = last.index)

\* the same value committed twice in a row
C4_Witness ==
    /\ last.op = "setState"
    /\ JSONstringify(last.arg) = JSONstringify(HeadOf(last))
    /\ Len(history) >= 2
    /\ index = Len(history) - 1

\* C12: undo() at a pointer > 0 (canUndo true) moves the pointer back by
\* exactly one and leaves the snapshot array as it is; at pointer 0 it changes
\* nothing.
C12_UndoStep ==
    last.op = "undo"
    => /\ history = last.history
       /\ index = IF last.index > 0 THEN last.index - 1 ELSE last.index
       /\ index >= 0

\* an undo made on the last of three snapshots
C12_Witness ==
    /\ last.op = "undo" /\ last.index = 2 /\ index = 1
    /\ Len(history) = 3

\* C13: redo() at a pointer below the last index (canRedo true) moves the
\* pointer forward by exactly one and leaves the snapshot array as it is; at
\* the tail it changes nothing.
C13_RedoStep ==
    last.op = "redo"
    => /\ history = last.history
       /\ index = IF last.index < Len(last.history) - 1
                  THEN last.index + 1 ELSE last.index
       /\ index <= Len(history) - 1

\* a redo made on the first of three snapshots
C13_Witness ==
    /\ last.op = "redo" /\ last.index = 0 /\ index = 1
    /\ Len(history) = 3

\* C14: reset(newState), from any history and pointer, gives the history of
\* the one snapshot newState with pointer 0: canUndo and canRedo are false and
\* the current state is newState.
C14_ResetSingle ==
    last.op = "reset"
    => /\ history = <<last.arg>> /\ Len(history) = 1 /\ index = 0
       /\ ~canUndo /\ ~canRedo
       /\ state = last.arg

\* a reset made in the middle of three snapshots, to a value that is not the
\* first of them
C14_Witness ==
    /\ last.op = "reset"
    /\ Len(last.history) = 3 /\ last.index = 1
    /\ last.arg # last.history[1]

\* ------------------------------------------------ ImageDisplay.tsx controls
Max(a, b) == IF a >= b THEN a ELSE b
Min(a, b) == IF a <= b THEN a ELSE b

\* The image and the control bar are rendered when imageUrl && !showLoading.
ControlsVisible == generatedImage # NoImage /\ ~(isLoading \/ isEnhancing)

\* The effect on [position]: after a step that gave the current snapshot
\* another position, transientPosition is that position.
SyncTransient ==
    transientPosition' = IF state'.position # state.position
                         THEN state'.position
                         ELSE transientPosition

handleZoomChange(newZoom) == setState([state EXCEPT !.zoom = newZoom])

\* handleRotate as it would be without the remainder.
handleRotate_NoMod == setState([state EXCEPT !.rotation = state.rotation + 90])

handleRotate == setState([state EXCEPT !.rotation = (state.rotation + 90) % 360])

\* A click on the control bar.  The buttons are clicked with the mouse, so
\* none is clicked while the mouse button is held in a drag.
Edit ==
    /\ ~isDragging
    /\ done' = NoDone
    /\ UNCHANGED appVars
    /\ UNCHANGED <<isDragging, dragStart, bake, dialogVars, exported>>
    /\ SyncTransient

\* The zoom-out button as it would be without Math.max.
ZoomOut_NoClamp ==
    /\ ControlsVisible
    /\ handleZoomChange(state.zoom - ZoomStep)
    /\ Edit

ZoomOut ==
    /\ ControlsVisible
    /\ handleZoomChange(Max(MinZoom, state.zoom - ZoomStep))
    /\ Edit

ZoomIn ==
    /\ ControlsVisible
    /\ handleZoomChange(Min(MaxZoom, state.zoom + ZoomStep))
    /\ Edit

\* The values of the range input (min 1, max 3, step 0.05) the slider is
\* moved to; parseFloat of the value of a range input is that value.
SliderValues ==
    { MinZoom + SliderStep * k : k \in 0..MaxSliderStep } \cup { MaxZoom }

Slider ==
    /\ ControlsVisible
    /\ \E value \in SliderValues : handleZoomChange(value)
    /\ Edit

Rotate == ControlsVisible /\ handleRotate /\ Edit

\* The undo and redo buttons are disabled when !canUndo, !canRedo.
UndoClick == ControlsVisible /\ canUndo /\ undo /\ Edit
RedoClick == ControlsVisible /\ canRedo /\ redo /\ Edit
ResetClick == ControlsVisible /\ reset(initialTransformState) /\ Edit

\* ------------------------------------------------- ImageDisplay.tsx: the drag
\* clientX, clientY of the mouse events
Pointers == { [x |-> k, y |-> 2 * k] : k \in 0..MaxPointer }

\* A mouse event on the display.
Gesture ==
    /\ done' = NoDone
    /\ UNCHANGED appVars
    /\ UNCHANGED <<bake, dialogVars, exported>>

handleMouseDown(e) ==
    /\ IF state.zoom > 100
       THEN /\ isDragging' = TRUE
            /\ dragStart' = [x |-> e.x - transientPosition.x,
                             y |-> e.y - transientPosition.y]
       ELSE UNCHANGED <<isDragging, dragStart>>
    /\ last' = NoCall
    /\ UNCHANGED <<histVars, transientPosition>>

\* handleMouseMove as it would be if every sample were written to the history.
handleMouseMove_Commits(e) ==
    /\ IF isDragging
       THEN /\ transientPosition' = [x |-> e.x - dragStart.x, y |-> e.y - dragStart.y]
            /\ setState([state EXCEPT !.position = transientPosition'])
       ELSE /\ UNCHANGED <<histVars, transientPosition>>
            /\ last' = NoCall
    /\ UNCHANGED <<isDragging, dragStart>>

handleMouseMove(e) ==
    /\ IF isDragging
       THEN transientPosition' = [x |-> e.x - dragStart.x, y |-> e.y - dragStart.y]
       ELSE UNCHANGED transientPosition
    /\ last' = NoCall
    /\ UNCHANGED <<histVars, isDragging, dragStart>>

\* onMouseUp and onMouseLeave of the container
handleMouseUp ==
    /\ IF isDragging
       THEN setState([state EXCEPT !.position = transientPosition])
       ELSE last' = NoCall /\ UNCHANGED histVars
    /\ isDragging' = FALSE
    /\ UNCHANGED dragStart
    /\ SyncTransient

\* onMouseDown is on the image, which is rendered with the control bar.
MouseDown == ControlsVisible /\ \E e \in Pointers : handleMouseDown(e) /\ Gesture
MouseMove == \E e \in Pointers : handleMouseMove(e) /\ Gesture
MouseUp == handleMouseUp /\ Gesture

\* ------------------------------------------------------ the display alone
\* The display as it is after a generation and 0..MaxTurns quarter turns, then
\* driven with its control bar, its slider and the mouse.
Turned(t) == [t EXCEPT !.rotation = (t.rotation + 90) % 360]

RECURSIVE Turns(_)
Turns(n) ==
    IF n = 0 THEN <<initialTransformState>>
    ELSE LET h == Turns(n - 1) IN Append(h, Turned(h[Len(h)]))

\* The number of leading snapshots h has in common with Turns(MaxTurns).
Common(h) ==
    LET t == Turns(MaxTurns)
        P == { p \in 0..Min(Len(h), Len(t)) : SubSeq(h, 1, p) = SubSeq(t, 1, p) }
    IN  CHOOSE p \in P : \A q \in P : q <= p

\* At most MaxEdits snapshots are added to those of the quarter turns.
DisplayBound == Len(history') - Common(history') <= MaxEdits

\* The image is dragged at most as far as the mouse is seen to move.
PanBound ==
    /\ transientPosition'.x \in -MaxPointer..MaxPointer
    /\ transientPosition'.y \in -(2 * MaxPointer)..(2 * MaxPointer)

InitDisplay ==
    /\ \E n \in 0..MaxTurns : history = Turns(n) /\ index = n
    /\ last = NoCall
    /\ sourceImage = CHOOSE i \in Images : TRUE
    /\ generatedImage = CHOOSE i \in Images : TRUE
    /\ isLoading = FALSE
    /\ isEnhancing = FALSE
    /\ isRemovingBackground = FALSE
    /\ error = NoError
    /\ showExportModal = FALSE
    /\ fin = [f \in 1..MaxFlows |-> NoFlow]
    /\ gen = NoRequest
    /\ rb = NoRequest
    /\ done = NoDone
    /\ isDragging = FALSE
    /\ dragStart = [x |-> 0, y |-> 0]
    /\ transientPosition = initialTransformState.position
    /\ bake = NoBake
    /\ appSettings = getDefaultSettings
    /\ showSettingsModal = FALSE
    /\ localSettings = getDefaultSettings
    /\ originalDimensions = NoDimensions
    /\ exported = NoExport

NextDisplay ==
    \/ ZoomOut /\ DisplayBound
    \/ ZoomIn /\ DisplayBound
    \/ Slider /\ DisplayBound
    \/ Rotate /\ DisplayBound
    \/ UndoClick \/ RedoClick \/ ResetClick
    \/ MouseDown
    \/ MouseMove /\ PanBound
    \/ MouseUp /\ DisplayBound

SpecDisplay == InitDisplay /\ [][NextDisplay]_vars

\* ------------------------------------------------------ App.tsx: the source
anyLoading == isLoading \/ isEnhancing \/ isRemovingBackground

handleImageUpload ==
    \E file \in Images :
        /\ sourceImage' = file
        /\ generatedImage' = NoImage
        /\ last' = NoCall /\ done' = NoDone
        /\ UNCHANGED <<histVars, dragVars, bake, dialogVars, exported,
                   isLoading, isEnhancing, isRemovingBackground,
                       error, showExportModal, fin, gen, rb>>

handleClearSourceImage ==
    /\ sourceImage # NoImage
    /\ sourceImage' = NoImage
    /\ generatedImage' = NoImage
    /\ last' = NoCall /\ done' = NoDone
    /\ UNCHANGED <<histVars, dragVars, bake, dialogVars, exported,
                   isLoading, isEnhancing, isRemovingBackground,
                   error, showExportModal, fin, gen, rb>>

\* --------------------------------------------- App.tsx: handleRemoveBackground
handleRemoveBackground ==
    /\ IF sourceImage = NoImage
       THEN /\ error' = "precondition"
            /\ done' = [op |-> "removeBackground", outcome |-> "precondition"]
            /\ UNCHANGED <<isRemovingBackground, rb>>
       ELSE /\ isRemovingBackground' = TRUE
            /\ error' = NoError
            /\ done' = NoDone
            /\ rb' = [NoRequest EXCEPT !.pc = "calling"]
    /\ last' = NoCall
    /\ UNCHANGED <<histVars, dragVars, bake, dialogVars, exported,
                   sourceImage, generatedImage, isLoading, isEnhancing,
                   showExportModal, fin, gen>>

\* The button is disabled when !sourceImage || anyLoading.  One invocation is
\* followed at a time.
RemoveBackgroundClick ==
    /\ sourceImage # NoImage
    /\ ~anyLoading
    /\ rb.pc = "idle"
    /\ handleRemoveBackground

\* removeBackground resolved; dataURLtoFile may still throw inside the try.
RemoveBackgroundReturn ==
    /\ rb.pc = "calling"
    /\ \E result \in Images, parses \in BOOLEAN :
        IF parses
        THEN /\ sourceImage' = result
             /\ done' = [op |-> "removeBackground", outcome |-> "ok"]
             /\ UNCHANGED error
        ELSE /\ error' = "decode"
             /\ done' = [op |-> "removeBackground", outcome |-> "decode"]
             /\ UNCHANGED sourceImage
    /\ rb' = NoRequest
    /\ isRemovingBackground' = FALSE
    /\ last' = NoCall
    /\ UNCHANGED <<histVars, dragVars, bake, dialogVars, exported,
                   generatedImage, isLoading, isEnhancing,
                   showExportModal, fin, gen>>

\* removeBackground threw
RemoveBackgroundFail ==
    /\ rb.pc = "calling"
    /\ error' = "remote"
    /\ done' = [op |-> "removeBackground", outcome |-> "remote"]
    /\ rb' = NoRequest
    /\ isRemovingBackground' = FALSE
    /\ last' = NoCall
    /\ UNCHANGED <<histVars, dragVars, bake, dialogVars, exported,
                   sourceImage, generatedImage, isLoading, isEnhancing,
                   showExportModal, fin, gen>>

\* ----------------------------------------------------- App.tsx: handleGenerate
\* gen keeps the generated image and the history the session had when the
\* request was made.
handleGenerate ==
    /\ IF sourceImage = NoImage
       THEN /\ error' = "precondition"
            /\ done' = [op |-> "generate", outcome |-> "precondition",
                        before |-> [NoRequest EXCEPT !.image = generatedImage,
                                       !.history = history, !.index = index]]
            /\ UNCHANGED <<isLoading, generatedImage, gen>>
       ELSE /\ isLoading' = TRUE
            /\ error' = NoError
            /\ generatedImage' = NoImage
            /\ done' = NoDone
            /\ gen' = [pc |-> "calling", image |-> generatedImage,
                        history |-> history, index |-> index]
    /\ last' = NoCall
    /\ UNCHANGED <<histVars, dragVars, bake, dialogVars, exported,
                   sourceImage, isEnhancing, isRemovingBackground,
                   showExportModal, fin, rb>>

\* The button is disabled when anyLoading || !sourceImage.  One invocation is
\* followed at a time.
GenerateClick ==
    /\ ~anyLoading
    /\ sourceImage # NoImage
    /\ gen.pc = "idle"
    /\ handleGenerate

\* GenerateReturn as it would be without resetTransform.
GenerateReturn_KeepsTransform ==
    /\ gen.pc = "calling"
    /\ \E imageUrl \in Images : generatedImage' = imageUrl
    /\ isLoading' = FALSE
    /\ done' = [op |-> "generate", outcome |-> "ok", before |-> gen]
    /\ gen' = NoRequest
    /\ last' = NoCall
    /\ UNCHANGED <<histVars, dragVars, bake, dialogVars, exported,
                   sourceImage, isEnhancing,
                   isRemovingBackground, error, showExportModal, fin, rb>>

\* generateFashionImage resolved
GenerateReturn ==
    /\ gen.pc = "calling"
    /\ \E imageUrl \in Images : generatedImage' = imageUrl
    /\ reset(initialTransformState)
    /\ SyncTransient
    /\ isLoading' = FALSE
    /\ done' = [op |-> "generate", outcome |-> "ok", before |-> gen]
    /\ gen' = NoRequest
    /\ UNCHANGED <<sourceImage, isEnhancing, isRemovingBackground, error,
                   showExportModal, fin, rb, isDragging, dragStart, bake, dialogVars, exported>>

\* GenerateFail as it would be without the finally block.
GenerateFail_NoFinally ==
    /\ gen.pc = "calling"
    /\ error' = "remote"
    /\ UNCHANGED isLoading
    /\ done' = [op |-> "generate", outcome |-> "remote", before |-> gen]
    /\ gen' = NoRequest
    /\ last' = NoCall
    /\ UNCHANGED <<histVars, dragVars, bake, dialogVars, exported,
                   sourceImage, generatedImage, isEnhancing,
                   isRemovingBackground, showExportModal, fin, rb>>

\* GenerateFail as it would be with resetTransform in the finally block.
GenerateFail_ResetsTransform ==
    /\ gen.pc = "calling"
    /\ error' = "remote"
    /\ isLoading' = FALSE
    /\ done' = [op |-> "generate", outcome |-> "remote", before |-> gen]
    /\ gen' = NoRequest
    /\ reset(initialTransformState)
    /\ SyncTransient
    /\ UNCHANGED <<sourceImage, generatedImage, isEnhancing,
                   isRemovingBackground, showExportModal, fin, rb,
                   isDragging, dragStart, bake, dialogVars, exported>>

\* generateFashionImage threw
GenerateFail ==
    /\ gen.pc = "calling"
    /\ error' = "remote"
    /\ isLoading' = FALSE
    /\ done' = [op |-> "generate", outcome |-> "remote", before |-> gen]
    /\ gen' = NoRequest
    /\ last' = NoCall
    /\ UNCHANGED <<histVars, dragVars, bake, dialogVars, exported,
                   sourceImage, generatedImage, isEnhancing,
                   isRemovingBackground, showExportModal, fin, rb>>

\* ------------------------------------------ App.tsx: handleFinalizeAndDownload
\* A flow of handleFinalizeAndDownload is at one of:
\*   idle       not running, and its image element is gone
\*   baking     awaiting applyTransformationsToImage (the decode of the image)
\*   enhancing  awaiting enhanceImage
\*   loading    awaiting the promise of step 3 (onload, onerror or the timer)
\*   zombie     the promise of step 3 was rejected by the timer and the flow has
\*              ended, but the image element still carries onload and onerror
\* log lists what the flow has done, in order.
InFlight == {"baking", "enhancing", "loading"}

FullLog == <<"bakeDone", "enhanceInvoked", "enhanceReturned",
             "exportRun", "encoded", "download">>

\* The button as it would be with disabled={isLoading} alone.
OpenExportModal_NoEnhancingTest ==
    /\ generatedImage # NoImage
    /\ ~isLoading
    /\ showExportModal' = TRUE
    /\ last' = NoCall /\ done' = NoDone
    /\ UNCHANGED <<histVars, dragVars, bake, dialogVars, exported,
                   sourceImage, generatedImage, isLoading, isEnhancing,
                   isRemovingBackground, error, fin, gen, rb>>

\* "Finalize & Export" of ImageDisplay opens the modal; it is rendered when
\* imageUrl is set and disabled when isLoading || isEnhancing.
OpenExportModal ==
    /\ generatedImage # NoImage
    /\ ~(isLoading \/ isEnhancing)
    /\ showExportModal' = TRUE
    /\ last' = NoCall /\ done' = NoDone
    /\ UNCHANGED <<histVars, dragVars, bake, dialogVars, exported,
                   sourceImage, generatedImage, isLoading, isEnhancing,
                   isRemovingBackground, error, fin, gen, rb>>

CloseExportModal ==
    /\ showExportModal
    /\ showExportModal' = FALSE
    /\ last' = NoCall /\ done' = NoDone
    /\ UNCHANGED <<histVars, dragVars, bake, dialogVars, exported,
                   sourceImage, generatedImage, isLoading, isEnhancing,
                   isRemovingBackground, error, fin, gen, rb>>

\* What no step of a finalize flow after its start touches.
FinalizeFrame ==
    /\ last' = NoCall
    /\ UNCHANGED <<histVars, dragVars, bake, dialogVars, exported,
                   sourceImage, generatedImage, isLoading,
                   isRemovingBackground, showExportModal, gen, rb>>

\* The catch block as it would be if it also dropped the image and the edits.
FinalizeCatch_DropsSession(f, kind, next, log) ==
    /\ error' = kind
    /\ isEnhancing' = FALSE
    /\ fin' = [fin EXCEPT ![f] = [NoFlow EXCEPT !.pc = next,
                                     !.log = IF next = "idle" THEN <<>> ELSE log]]
    /\ done' = [op |-> "finalize", outcome |-> kind, log |-> log]
    /\ last' = NoCall
    /\ generatedImage' = NoImage
    /\ history' = <<initialTransformState>>
    /\ index' = 0
    /\ SyncTransient
    /\ UNCHANGED <<sourceImage, isLoading, isRemovingBackground,
                   showExportModal, gen, rb, isDragging, dragStart, bake, dialogVars, exported>>

\* The catch and finally blocks of handleFinalizeAndDownload, for flow f that
\* ends at pc "next" having done "log".
FinalizeCatch(f, kind, next, log) ==
    /\ error' = kind
    /\ isEnhancing' = FALSE
    /\ fin' = [fin EXCEPT ![f] = [NoFlow EXCEPT !.pc = next,
                                     !.log = IF next = "idle" THEN <<>> ELSE log]]
    /\ done' = [op |-> "finalize", outcome |-> kind, log |-> log]
    /\ FinalizeFrame

\* The handler as it would be without the test for zero dimensions.
handleFinalizeAndDownload_NoZeroTest(f, container, storage) ==
    IF generatedImage = NoImage \/ container = "missing"
    THEN /\ error' = "precondition"
         /\ done' = [op |-> "finalize", outcome |-> "precondition", log |-> <<>>,
                     cause |-> IF generatedImage = NoImage THEN "image" ELSE container]
         /\ UNCHANGED <<isEnhancing, showExportModal, fin>>
    ELSE /\ showExportModal' = FALSE
         /\ IF storage = "throws"
            THEN /\ error' = "storage"
                 /\ isEnhancing' = FALSE
                 /\ done' = [op |-> "finalize", outcome |-> "storage", log |-> <<>>]
                 /\ UNCHANGED fin
            ELSE /\ error' = NoError
                 /\ isEnhancing' = TRUE
                 /\ done' = [op |-> "finalizeStart", container |-> container]
                 /\ fin' = [fin EXCEPT ![f] = [NoFlow EXCEPT !.pc = "baking"]]

\* The handler up to its first suspension.  container is what the query for
\* the display container and its measurement give; storage is whether
\* localStorage.setItem throws.
handleFinalizeAndDownload(f, container, storage) ==
    IF generatedImage = NoImage \/ container \in {"missing", "zero"}
    THEN /\ error' = "precondition"
         /\ done' = [op |-> "finalize", outcome |-> "precondition", log |-> <<>>,
                     cause |-> IF generatedImage = NoImage THEN "image" ELSE container]
         /\ UNCHANGED <<isEnhancing, showExportModal, fin>>
    ELSE /\ showExportModal' = FALSE
         /\ IF storage = "throws"
            THEN /\ error' = "storage"
                 /\ isEnhancing' = FALSE
                 /\ done' = [op |-> "finalize", outcome |-> "storage", log |-> <<>>]
                 /\ UNCHANGED fin
            ELSE /\ error' = NoError
                 /\ isEnhancing' = TRUE
                 /\ done' = [op |-> "finalizeStart", container |-> container]
                 /\ fin' = [fin EXCEPT ![f] = [NoFlow EXCEPT !.pc = "baking"]]

\* "Download Image" of ExportModal, rendered while the modal is open.  The
\* flow takes the first free place.
DownloadClick ==
    /\ showExportModal
    /\ \E f \in 1..MaxFlows :
        /\ fin[f].pc = "idle"
        /\ \A g \in 1..(f - 1) : fin[g].pc # "idle"
        /\ \E container \in {"missing", "zero", "ok"}, storage \in {"ok", "throws"} :
              handleFinalizeAndDownload(f, container, storage)
    /\ last' = NoCall
    /\ UNCHANGED <<histVars, dragVars, bake, dialogVars, exported,
                   sourceImage, generatedImage, isLoading,
                   isRemovingBackground, gen, rb>>

\* img.onload of applyTransformationsToImage, and on success the call of
\* enhanceImage that follows the await.
BakeOnload(f) ==
    /\ fin[f].pc = "baking"
    /\ \E res \in {"ok", "context", "calculation", "encoding", "exception"} :
        IF res = "ok"
        THEN /\ fin' = [fin EXCEPT ![f].pc = "enhancing", ![f].elapsed = 0,
                            ![f].log = <<"bakeDone", "enhanceInvoked">>]
             /\ done' = NoDone
             /\ UNCHANGED <<error, isEnhancing>>
             /\ FinalizeFrame
        ELSE FinalizeCatch(f, res, "idle", fin[f].log)

\* img.onerror of applyTransformationsToImage
BakeOnerror(f) ==
    /\ fin[f].pc = "baking"
    /\ FinalizeCatch(f, "decode", "idle", fin[f].log)

\* Step 3 as it would be without its setTimeout.
EnhanceReturn_NoTimer(f) ==
    /\ fin[f].pc = "enhancing"
    /\ fin' = [fin EXCEPT ![f].pc = "loading", ![f].elapsed = 0, ![f].armed = FALSE,
                          ![f].log = Append(fin[f].log, "enhanceReturned")]
    /\ done' = NoDone
    /\ UNCHANGED <<error, isEnhancing>>
    /\ FinalizeFrame

\* enhanceImage resolved: step 3 arms the timer and sets img.src.
EnhanceReturn(f) ==
    /\ fin[f].pc = "enhancing"
    /\ fin' = [fin EXCEPT ![f].pc = "loading", ![f].elapsed = 0, ![f].armed = TRUE,
                          ![f].log = Append(fin[f].log, "enhanceReturned")]
    /\ done' = NoDone
    /\ UNCHANGED <<error, isEnhancing>>
    /\ FinalizeFrame

\* The catch block as it would be if it called enhanceImage a second time.
EnhanceFail_Retries(f) ==
    /\ fin[f].pc = "enhancing"
    /\ IF Len(fin[f].log) < 3
       THEN /\ fin' = [fin EXCEPT ![f].elapsed = 0,
                           ![f].log = Append(fin[f].log, "enhanceInvoked")]
            /\ done' = NoDone
            /\ UNCHANGED <<error, isEnhancing>>
            /\ FinalizeFrame
       ELSE FinalizeCatch(f, "remote", "idle", fin[f].log)

\* enhanceImage threw
EnhanceFail(f) ==
    /\ fin[f].pc = "enhancing"
    /\ FinalizeCatch(f, "remote", "idle", fin[f].log)

\* The body of img.onload as it would be without the test of the data URL.
ExportLog_NoEmptyTest(res) ==
    CASE res = "ok" -> <<"exportRun", "encoded", "download">>
      [] res = "encoding" -> <<"exportRun", "download">>
      [] OTHER -> <<>>

\* What the body of img.onload of step 3 does, by the result of the export:
\* without a context nothing; with an empty data URL the drawing alone.
ExportLog(res) ==
    CASE res = "ok" -> <<"exportRun", "encoded", "download">>
      [] res = "encoding" -> <<"exportRun">>
      [] OTHER -> <<>>

\* img.onload of step 3.  It stays attached to the image element after the
\* timer has rejected the promise; resolve and reject are then without effect.
FinalOnload(f) ==
    /\ fin[f].pc \in {"loading", "zombie"}
    /\ \E res \in {"ok", "context", "encoding"} :
        LET log == fin[f].log \o ExportLog(res) IN
        IF fin[f].pc = "zombie"
        THEN /\ fin' = [fin EXCEPT ![f] = NoFlow]
             /\ done' = [op |-> "lateOnload", outcome |-> "timeout", log |-> log]
             /\ UNCHANGED <<error, isEnhancing>>
             /\ FinalizeFrame
        ELSE IF res = "ok"
        THEN /\ fin' = [fin EXCEPT ![f] = NoFlow]
             /\ done' = [op |-> "finalize", outcome |-> "ok", log |-> log]
             /\ isEnhancing' = FALSE
             /\ UNCHANGED error
             /\ FinalizeFrame
        ELSE FinalizeCatch(f, res, "idle", log)

\* img.onerror of step 3
FinalOnerror(f) ==
    /\ fin[f].pc \in {"loading", "zombie"}
    /\ IF fin[f].pc = "zombie"
       THEN /\ fin' = [fin EXCEPT ![f] = NoFlow]
            /\ done' = [op |-> "lateOnerror", outcome |-> "timeout", log |-> fin[f].log]
            /\ UNCHANGED <<error, isEnhancing>>
            /\ FinalizeFrame
       ELSE FinalizeCatch(f, "decode", "idle", fin[f].log)

\* The timer of step 3 is due when it is armed and its delay has passed.
TimerDue(f) == fin[f].armed /\ fin[f].elapsed >= TimeoutMs

\* The callback of setTimeout
Timeout(f) ==
    /\ TimerDue(f)
    /\ FinalizeCatch(f, "timeout", "zombie", fin[f].log)

\* The flows whose wait the clock measures.
Waiting(f) == fin[f].pc \in {"enhancing", "loading"}

\* Time passes for the flows that wait.  A timer that is due runs before time
\* moves on.
Tick ==
    /\ \A f \in 1..MaxFlows : ~TimerDue(f)
    /\ \E f \in 1..MaxFlows : Waiting(f) /\ fin[f].elapsed + TickMs <= MaxWaitMs
    /\ fin' = [f \in 1..MaxFlows |->
                 IF Waiting(f) /\ fin[f].elapsed + TickMs <= MaxWaitMs
                 THEN [fin[f] EXCEPT !.elapsed = fin[f].elapsed + TickMs]
                 ELSE fin[f]]
    /\ done' = NoDone
    /\ UNCHANGED <<error, isEnhancing>>
    /\ FinalizeFrame

\* The session is followed with the buttons of the control bar, up to
\* MaxEdits snapshots; the slider and the drag are followed in SpecDisplay.
SessionBound == Len(history') <= MaxEdits

Next ==
    \/ ZoomOut /\ SessionBound
    \/ ZoomIn /\ SessionBound
    \/ Rotate /\ SessionBound
    \/ UndoClick \/ RedoClick \/ ResetClick
    \/ handleImageUpload \/ handleClearSourceImage
    \/ RemoveBackgroundClick \/ RemoveBackgroundReturn \/ RemoveBackgroundFail
    \/ GenerateClick \/ GenerateReturn \/ GenerateFail
    \/ OpenExportModal \/ CloseExportModal \/ DownloadClick
    \/ \E f \in 1..MaxFlows :
          \/ BakeOnload(f) \/ BakeOnerror(f)
          \/ EnhanceReturn(f) \/ EnhanceFail(f)
          \/ FinalOnload(f) \/ FinalOnerror(f) \/ Timeout(f)
    \/ Tick

Spec == Init /\ [][Next]_vars

\* ------------------------------------- App.tsx: applyTransformationsToImage
\* The function called on its own, with any container size and any image.
\* bake.decode tells whether an Image was created and given its src.
Containers ==
    { [present |-> FALSE, width |-> 0, height |-> 0] } \cup
    { [present |-> TRUE, width |-> w, height |-> h] : w, h \in -1..MaxSide }

NaturalSizes == { [width |-> w, height |-> h] : w, h \in 0..MaxSide }

\* An edit of a 2400x3200 image made in a 300x400 container.
Scenario ==
    [natural |-> [width |-> 2400, height |-> 3200],
     containerSize |-> [present |-> TRUE, width |-> 300, height |-> 400],
     transformState |-> Transform(150, 90, 20, -10)]

\* The transform states the function is called with, beside those without a
\* pan: the places of the mouse as positions, to the right and above.
BakeTransforms ==
    { Scenario.transformState } \cup
    { Transform(MaxZoom, 0, p.x, -p.y) : p \in Pointers }

RECURSIVE GCD(_, _)
GCD(a, b) == IF b = 0 THEN a ELSE GCD(b, a % b)

\* The fraction n / d, d > 0, in lowest terms.
Frac(n, d) ==
    LET g == GCD(IF n < 0 THEN -n ELSE n, d)
    IN  [num |-> n \div g, den |-> d \div g]

\* imageAspect > containerAspect, for w / h that is +Infinity when h = 0 < w
\* and NaN when h = 0 = w, and a container with positive sides
ImageIsWider(n, c) ==
    IF n.height = 0 THEN n.width > 0
    ELSE n.width * c.height > c.width * n.height

\* renderedWidth, as the fraction num / den or as NaN
RenderedWidth(n, c) ==
    IF ImageIsWider(n, c)
    THEN [num |-> c.width, den |-> 1, nan |-> FALSE]
    ELSE IF n.height = 0
    THEN [num |-> 0, den |-> 1, nan |-> TRUE]
    ELSE [num |-> c.height * n.width, den |-> n.height, nan |-> FALSE]

\* renderedWidth <= 0 || !isFinite(renderedWidth)
InvalidRenderedWidth(r) == r.nan \/ r.num <= 0

\* What no step of the function touches.
BakeFrame ==
    /\ last' = NoCall /\ done' = NoDone
    /\ UNCHANGED <<histVars, dragVars>>
    /\ UNCHANGED appVars
    /\ UNCHANGED <<dialogVars, exported>>

\* The start of the function as it would be without the test of the height.
applyTransformationsToImage_NoHeightTest(containerSize, transformState) ==
    bake' = IF ~containerSize.present \/ containerSize.width <= 0
            THEN [pc |-> "settled", containerSize |-> containerSize,
                  transformState |-> transformState, decode |-> FALSE,
                  outcome |-> "viewport"]
            ELSE [pc |-> "decoding", containerSize |-> containerSize,
                  transformState |-> transformState, decode |-> TRUE,
                  outcome |-> "pending"]

\* The function up to the return of its promise: the test of the container
\* size, then the Image and its src.
applyTransformationsToImage(containerSize, transformState) ==
    bake' = IF \/ ~containerSize.present
               \/ containerSize.width <= 0
               \/ containerSize.height <= 0
            THEN [pc |-> "settled", containerSize |-> containerSize,
                  transformState |-> transformState, decode |-> FALSE,
                  outcome |-> "viewport"]
            ELSE [pc |-> "decoding", containerSize |-> containerSize,
                  transformState |-> transformState, decode |-> TRUE,
                  outcome |-> "pending"]

ApplyTransformCall ==
    /\ bake.pc \in {"idle", "settled"}
    /\ \E containerSize \in Containers \cup {Scenario.containerSize},
          transformState \in TransformValues \cup BakeTransforms :
          applyTransformationsToImage(containerSize, transformState)
    /\ BakeFrame

\* The promise settled with "outcome"; canvas is the canvas the data URL was
\* made from, that is the size of the image the function gives.
Settled(outcome, natural, canvas) ==
    bake' = [bake EXCEPT !.pc = "settled", !.outcome = outcome] @@
            [natural |-> natural, output |-> canvas]

\* The promise resolved: the canvas was drawn with the second translation
\* "translate", computed with "scaleFactor", and encoded.
Drawn(natural, canvas, scaleFactor, translate) ==
    bake' = [bake EXCEPT !.pc = "settled", !.outcome = "ok"] @@
            [natural |-> natural, output |-> canvas,
             scaleFactor |-> scaleFactor, translate |-> translate]

\* w / renderedWidth, for a valid renderedWidth
ScaleFactor(natural, renderedWidth) ==
    Frac(natural.width * renderedWidth.den, renderedWidth.num)

\* (position.x * scaleFactor, position.y * scaleFactor)
Translate(position, scaleFactor) ==
    [x |-> Frac(position.x * scaleFactor.num, scaleFactor.den),
     y |-> Frac(position.y * scaleFactor.num, scaleFactor.den)]

\* img.onload as it would be with a canvas of the size of the container.
bakeOnload_ContainerCanvas(natural, ctx, draws, encodes) ==
    LET renderedWidth == RenderedWidth(natural, bake.containerSize)
        scaleFactor == ScaleFactor(natural, renderedWidth)
        canvas == [width |-> bake.containerSize.width,
                   height |-> bake.containerSize.height]
        none == [width |-> 0, height |-> 0]
    IN  IF ~ctx THEN Settled("context", natural, none)
        ELSE IF InvalidRenderedWidth(renderedWidth)
        THEN Settled("calculation", natural, none)
        ELSE IF ~draws THEN Settled("exception", natural, none)
        ELSE IF ~encodes \/ canvas.width = 0 \/ canvas.height = 0
        THEN Settled("encoding", natural, none)
        ELSE Drawn(natural, canvas, scaleFactor,
                   Translate(bake.transformState.position, scaleFactor))

\* img.onload as it would be with the pan applied in screen pixels.
bakeOnload_ScreenPan(natural, ctx, draws, encodes) ==
    LET renderedWidth == RenderedWidth(natural, bake.containerSize)
        scaleFactor == ScaleFactor(natural, renderedWidth)
        canvas == [width |-> natural.width, height |-> natural.height]
        none == [width |-> 0, height |-> 0]
    IN  IF ~ctx THEN Settled("context", natural, none)
        ELSE IF InvalidRenderedWidth(renderedWidth)
        THEN Settled("calculation", natural, none)
        ELSE IF ~draws THEN Settled("exception", natural, none)
        ELSE IF ~encodes \/ canvas.width = 0 \/ canvas.height = 0
        THEN Settled("encoding", natural, none)
        ELSE Drawn(natural, canvas, scaleFactor,
                   Translate(bake.transformState.position, Frac(1, 1)))

\* img.onload of the function, for an image decoded with the natural size
\* "natural".  ctx: getContext gave a context; draws: no canvas call threw;
\* encodes: toDataURL gave an image.  A canvas without area gives "data:,".
bakeOnload(natural, ctx, draws, encodes) ==
    LET renderedWidth == RenderedWidth(natural, bake.containerSize)
        scaleFactor == ScaleFactor(natural, renderedWidth)
        canvas == [width |-> natural.width, height |-> natural.height]
        none == [width |-> 0, height |-> 0]
    IN  IF ~ctx THEN Settled("context", natural, none)
        ELSE IF InvalidRenderedWidth(renderedWidth)
        THEN Settled("calculation", natural, none)
        ELSE IF ~draws THEN Settled("exception", natural, none)
        ELSE IF ~encodes \/ canvas.width = 0 \/ canvas.height = 0
        THEN Settled("encoding", natural, none)
        ELSE Drawn(natural, canvas, scaleFactor,
                   Translate(bake.transformState.position, scaleFactor))

ApplyTransformOnload ==
    /\ bake.pc = "decoding"
    /\ \E natural \in NaturalSizes \cup {Scenario.natural}, ctx \in BOOLEAN,
          draws \in BOOLEAN, encodes \in BOOLEAN :
          bakeOnload(natural, ctx, draws, encodes)
    /\ BakeFrame

\* img.onerror of the function
ApplyTransformOnerror ==
    /\ bake.pc = "decoding"
    /\ bake' = [bake EXCEPT !.pc = "settled", !.outcome = "decode"]
    /\ BakeFrame

NextTransform ==
    ApplyTransformCall \/ ApplyTransformOnload \/ ApplyTransformOnerror

SpecTransform == Init /\ [][NextTransform]_vars

\* --------------------------- App.tsx: step 3 of handleFinalizeAndDownload
\* The body of img.onload of step 3 run on its own: the target size resolved
\* from the resolution setting, the canvas and the crop.  The sizes are
\* fractions: the program computes them in doubles.
ExportSizes ==
    { [width |-> w, height |-> h] : w, h \in 1..MaxExportSide } \cup
    { [width |-> 3000, height |-> 2000], [width |-> 2400, height |-> 3200] }

\* the widths and heights of a custom resolution: null, the small ones, and
\* 200, 301, 303, of which 301x200 is within 0.01 of the aspect ratio 1.5 and
\* 303x200 is not
CustomSides ==
    { null } \cup { Number(k) : k \in 0..MaxCustomSide } \cup
    { Number(200), Number(301), Number(303) }

ResolutionPresets ==
    {"original", "hd", "4k", "square", "portrait", "landscape", "custom"}

\* The resolution settings the export is run with: width and height are set
\* under custom alone.
ResolutionValues ==
    { [preset |-> p, width |-> null, height |-> null, aspectRatioLocked |-> TRUE] :
        p \in ResolutionPresets \ {"custom"} } \cup
    { [preset |-> "custom", width |-> w, height |-> h, aspectRatioLocked |-> TRUE] :
        w, h \in CustomSides }

\* Math.round of the fraction q: the nearest integer, a half rounded up
MathRound(q) == (2 * q.num + q.den) \div (2 * q.den)

\* case 'hd' and case '4k': the long edge is set to "edge"
LongEdge(natural, edge) ==
    IF natural.width >= natural.height
    THEN [targetWidth |-> Frac(edge, 1),
          targetHeight |-> Frac(edge * natural.height, natural.width),
          requiresCropping |-> FALSE]
    ELSE [targetWidth |-> Frac(edge * natural.width, natural.height),
          targetHeight |-> Frac(edge, 1),
          requiresCropping |-> FALSE]

\* a preset with a fixed size, which crops
Fixed(w, h) ==
    [targetWidth |-> Frac(w, 1), targetHeight |-> Frac(h, 1),
     requiresCropping |-> TRUE]

\* case 'custom': width || originalWidth, height || originalHeight, and
\* Math.abs(targetWidth / targetHeight - originalAspectRatio) > 0.01
Custom(natural, resolution) ==
    LET targetWidth == IF Truthy(resolution.width) THEN resolution.width.n
                       ELSE natural.width
        targetHeight == IF Truthy(resolution.height) THEN resolution.height.n
                        ELSE natural.height
        delta == targetWidth * natural.height - natural.width * targetHeight
    IN  [targetWidth |-> Frac(targetWidth, 1),
         targetHeight |-> Frac(targetHeight, 1),
         requiresCropping |->
            100 * (IF delta < 0 THEN -delta ELSE delta)
                > targetHeight * natural.height]

\* The switch as it would be with the width set to the edge for every image.
ResolveTarget_HdByWidth(natural, resolution) ==
    CASE resolution.preset = "hd" ->
            [targetWidth |-> Frac(1920, 1),
             targetHeight |-> Frac(1920 * natural.height, natural.width),
             requiresCropping |-> FALSE]
      [] resolution.preset = "4k" ->
            [targetWidth |-> Frac(3840, 1),
             targetHeight |-> Frac(3840 * natural.height, natural.width),
             requiresCropping |-> FALSE]
      [] resolution.preset = "square" -> Fixed(1080, 1080)
      [] resolution.preset = "portrait" -> Fixed(1080, 1920)
      [] resolution.preset = "landscape" -> Fixed(1920, 1080)
      [] resolution.preset = "custom" -> Custom(natural, resolution)
      [] OTHER ->
            [targetWidth |-> Frac(natural.width, 1),
             targetHeight |-> Frac(natural.height, 1),
             requiresCropping |-> FALSE]

\* The switch on resolution.preset: targetWidth, targetHeight and
\* requiresCropping for an image of the size "natural".
ResolveTarget(natural, resolution) ==
    CASE resolution.preset = "hd" -> LongEdge(natural, 1920)
      [] resolution.preset = "4k" -> LongEdge(natural, 3840)
      [] resolution.preset = "square" -> Fixed(1080, 1080)
      [] resolution.preset = "portrait" -> Fixed(1080, 1920)
      [] resolution.preset = "landscape" -> Fixed(1920, 1080)
      [] resolution.preset = "custom" -> Custom(natural, resolution)
      [] OTHER ->
            [targetWidth |-> Frac(natural.width, 1),
             targetHeight |-> Frac(natural.height, 1),
             requiresCropping |-> FALSE]

\* The whole image as the source rectangle of drawImage.
WholeImage(natural) ==
    [sx |-> Frac(0, 1), sy |-> Frac(0, 1),
     sWidth |-> Frac(natural.width, 1), sHeight |-> Frac(natural.height, 1)]

\* The crop as it would be taken from the top left corner.
CropRect_TopLeft(natural, canvas) ==
    IF natural.width * canvas.height > canvas.width * natural.height
    THEN [WholeImage(natural) EXCEPT
            !.sWidth = Frac(natural.height * canvas.width, canvas.height)]
    ELSE IF natural.width * canvas.height < canvas.width * natural.height
    THEN [WholeImage(natural) EXCEPT
            !.sHeight = Frac(natural.width * canvas.height, canvas.width)]
    ELSE WholeImage(natural)

\* The crop as it would be with the two branches exchanged.
CropRect_Swapped(natural, canvas) ==
    IF natural.width * canvas.height < canvas.width * natural.height
    THEN [WholeImage(natural) EXCEPT
            !.sWidth = Frac(natural.height * canvas.width, canvas.height),
            !.sx = Frac(natural.width * canvas.height
                          - natural.height * canvas.width, 2 * canvas.height)]
    ELSE IF natural.width * canvas.height > canvas.width * natural.height
    THEN [WholeImage(natural) EXCEPT
            !.sHeight = Frac(natural.width * canvas.height, canvas.width),
            !.sy = Frac(natural.height * canvas.width
                          - natural.width * canvas.height, 2 * canvas.width)]
    ELSE WholeImage(natural)

\* The source rectangle of a cropping export, for a canvas with positive
\* sides: canvasAspectRatio = canvas.width / canvas.height is compared with
\* originalAspectRatio, then sWidth and sx, or sHeight and sy, are set.
CropRect(natural, canvas) ==
    IF natural.width * canvas.height > canvas.width * natural.height
    THEN [WholeImage(natural) EXCEPT
            !.sWidth = Frac(natural.height * canvas.width, canvas.height),
            !.sx = Frac(natural.width * canvas.height
                          - natural.height * canvas.width, 2 * canvas.height)]
    ELSE IF natural.width * canvas.height < canvas.width * natural.height
    THEN [WholeImage(natural) EXCEPT
            !.sHeight = Frac(natural.width * canvas.height, canvas.width),
            !.sy = Frac(natural.height * canvas.width
                          - natural.width * canvas.height, 2 * canvas.width)]
    ELSE WholeImage(natural)

\* img.onload of step 3 up to drawImage, for an image loaded with the size
\* "natural" and the resolution setting "resolution".
exportOnload(natural, resolution) ==
    LET target == ResolveTarget(natural, resolution)
        canvas == [width |-> MathRound(target.targetWidth),
                   height |-> MathRound(target.targetHeight)]
    IN  exported' =
            [pc |-> "drawn", natural |-> natural, resolution |-> resolution,
             targetWidth |-> target.targetWidth,
             targetHeight |-> target.targetHeight,
             requiresCropping |-> target.requiresCropping,
             canvas |-> canvas,
             source |-> IF target.requiresCropping
                        THEN CropRect(natural, canvas)
                        ELSE WholeImage(natural)]

\* What the export step does not touch.
ExportFrame ==
    /\ last' = NoCall /\ done' = NoDone
    /\ UNCHANGED <<histVars, dragVars, bake, dialogVars>>
    /\ UNCHANGED appVars

\* Step 3 begins with the settings read at the start of the try block, and
\* sets img.src.
ExportStart ==
    /\ exported.pc \in {"idle", "drawn"}
    /\ \E resolution \in ResolutionValues :
          exported' = [pc |-> "loading", resolution |-> resolution]
    /\ ExportFrame

ExportOnload ==
    /\ exported.pc = "loading"
    /\ \E natural \in ExportSizes : exportOnload(natural, exported.resolution)
    /\ ExportFrame

NextExport == ExportStart \/ ExportOnload

SpecExport == Init /\ [][NextExport]_vars

\* --------------------------------- ExportModal.tsx and SettingsModal.tsx
\* The two dialogs that edit the export settings.  ExportModal edits
\* appSettings.exportSettings in place; SettingsModal edits its copy
\* localSettings, which "Save Changes" makes the appSettings.  done keeps the
\* edit the last step made and the setting it was made on.
ColorPresets == {"none", "vintage", "warm", "cool", "vivid", "muted"}
ColorFields == {"saturation", "contrast", "brightness", "warmth"}

PRESET_VALUES ==
    [none |-> [saturation |-> 100, contrast |-> 100, brightness |-> 100, warmth |-> 0],
     vintage |-> [saturation |-> 100, contrast |-> 100, brightness |-> 100, warmth |-> 40],
     warm |-> [saturation |-> 110, contrast |-> 100, brightness |-> 100, warmth |-> 20],
     cool |-> [saturation |-> 95, contrast |-> 100, brightness |-> 105, warmth |-> 0],
     vivid |-> [saturation |-> 150, contrast |-> 110, brightness |-> 100, warmth |-> 5],
     muted |-> [saturation |-> 50, contrast |-> 95, brightness |-> 100, warmth |-> 0]]

\* What is typed into the W and H fields: e.target.value ? parseInt(...) : null
DimInputs == { null } \cup { Number(300 * k) : k \in 0..MaxDimStep }

\* The value a slider is moved to: saturation to 140, the others to 60,
\* which all four ranges hold.
SliderInputs(field) == { IF field = "saturation" THEN 140 ELSE 60 }

\* The size the generated image is decoded with.
ImageSize(image) ==
    IF image % 2 = 1 THEN [width |-> 1200, height |-> 800]
    ELSE [width |-> 800, height |-> 1200]

\* updateResolution of ExportModal as it would be without the recomputation.
ExportModal_updateResolution_NoLock(resolution, key, value, dimensions) ==
    LET newRes == [resolution EXCEPT ![key] = value]
    IN  IF key = "preset" /\ value # "custom"
        THEN [newRes EXCEPT !.width = null, !.height = null]
        ELSE newRes

\* updateResolution of ExportModal: the new resolution for the edit of "key"
\* to "value", with originalDimensions as "dimensions".
ExportModal_updateResolution(resolution, key, value, dimensions) ==
    LET newRes == [resolution EXCEPT ![key] = value]
        cleared == IF key = "preset" /\ value # "custom"
                   THEN [newRes EXCEPT !.width = null, !.height = null]
                   ELSE newRes
    IN  IF ~dimensions.known THEN cleared
        ELSE IF key = "width" /\ cleared.aspectRatioLocked
        THEN [cleared EXCEPT !.height =
                IF Truthy(value)
                THEN Number(MathRound(Frac(value.n * dimensions.height,
                                           dimensions.width)))
                ELSE null]
        ELSE IF key = "height" /\ cleared.aspectRatioLocked
        THEN [cleared EXCEPT !.width =
                IF Truthy(value)
                THEN Number(MathRound(Frac(value.n * dimensions.width,
                                           dimensions.height)))
                ELSE null]
        ELSE cleared

\* updateResolution of SettingsModal as it would be without clearing the size.
SettingsModal_updateResolution_KeepsSize(resolution, key, value) ==
    [resolution EXCEPT ![key] = value]

\* updateResolution of SettingsModal
SettingsModal_updateResolution(resolution, key, value) ==
    LET newRes == [resolution EXCEPT ![key] = value]
    IN  IF key = "preset" /\ value # "custom"
        THEN [newRes EXCEPT !.width = null, !.height = null]
        ELSE newRes

\* updateColorGrading of ExportModal as it would be if a slider kept the preset.
ExportModal_updateColorGrading_KeepsPreset(colorGrading, key, value) ==
    IF key = "preset" /\ value # "custom"
    THEN [preset |-> value] @@ PRESET_VALUES[value]
    ELSE [colorGrading EXCEPT ![key] = value]

\* updateColorGrading of ExportModal
ExportModal_updateColorGrading(colorGrading, key, value) ==
    IF key = "preset" /\ value # "custom"
    THEN [preset |-> value] @@ PRESET_VALUES[value]
    ELSE [[colorGrading EXCEPT ![key] = value] EXCEPT !.preset = "custom"]

\* updateColorGrading of SettingsModal
SettingsModal_updateColorGrading(colorGrading, key, value) ==
    IF key = "preset" /\ value # "custom"
    THEN [preset |-> value] @@ PRESET_VALUES[value]
    ELSE [[colorGrading EXCEPT ![key] = value] EXCEPT !.preset = "custom"]

\* What an edit in a dialog does not touch.
DialogFrame ==
    /\ last' = NoCall
    /\ UNCHANGED <<histVars, dragVars, bake, exported>>
    /\ UNCHANGED appVars

\* setSettings of ExportModal, that is setExportSettings of App.  The effect
\* of SettingsModal on [isOpen, currentSettings] copies the new appSettings
\* when that dialog is open.
setExportSettings(newSettings) ==
    /\ appSettings' = newSettings
    /\ localSettings' = IF showSettingsModal THEN newSettings ELSE localSettings
    /\ UNCHANGED <<showSettingsModal, originalDimensions>>

\* setLocalSettings of SettingsModal
setLocalSettings(newSettings) ==
    /\ localSettings' = newSettings
    /\ UNCHANGED <<appSettings, showSettingsModal, originalDimensions>>

\* The edit of the resolution "before" in "dialog", as done keeps it.
ResolutionEdit(dialog, key, value, before) ==
    [op |-> "updateResolution", dialog |-> dialog, key |-> key, value |-> value,
     before |-> before, dimensions |-> originalDimensions]

\* The edit of the colour grading "before" in "dialog", as done keeps it.
ColorEdit(dialog, key, value, before) ==
    [op |-> "updateColorGrading", dialog |-> dialog, key |-> key,
     value |-> value, before |-> before]

\* img.onload of the effect of ExportModal on [baseImageUrl]
PreviewOnload ==
    /\ generatedImage # NoImage
    /\ originalDimensions # [known |-> TRUE] @@ ImageSize(generatedImage)
    /\ originalDimensions' = [known |-> TRUE] @@ ImageSize(generatedImage)
    /\ done' = NoDone
    /\ UNCHANGED <<appSettings, showSettingsModal, localSettings>>
    /\ DialogFrame

\* The resolution select of ExportModal
ExportSelectResolution ==
    /\ showExportModal
    /\ \E value \in ResolutionPresets :
        /\ setExportSettings([appSettings EXCEPT !.resolution =
              ExportModal_updateResolution(appSettings.resolution, "preset",
                                           value, originalDimensions)])
        /\ done' = ResolutionEdit("export", "preset", value, appSettings.resolution)
    /\ DialogFrame

\* The W and H fields of ExportModal, rendered under custom
ExportEditDimension ==
    /\ showExportModal
    /\ appSettings.resolution.preset = "custom"
    /\ \E key \in {"width", "height"}, value \in DimInputs :
        /\ setExportSettings([appSettings EXCEPT !.resolution =
              ExportModal_updateResolution(appSettings.resolution, key, value,
                                           originalDimensions)])
        /\ done' = ResolutionEdit("export", key, value, appSettings.resolution)
    /\ DialogFrame

\* The lock button of ExportModal, rendered under custom
ExportToggleLock ==
    /\ showExportModal
    /\ appSettings.resolution.preset = "custom"
    /\ LET value == ~appSettings.resolution.aspectRatioLocked IN
        /\ setExportSettings([appSettings EXCEPT !.resolution =
              ExportModal_updateResolution(appSettings.resolution,
                    "aspectRatioLocked", value, originalDimensions)])
        /\ done' = ResolutionEdit("export", "aspectRatioLocked", value,
                                  appSettings.resolution)
    /\ DialogFrame

\* The colour preset select of ExportModal; its custom option is disabled.
ExportSelectColorPreset ==
    /\ showExportModal
    /\ \E value \in ColorPresets :
        /\ setExportSettings([appSettings EXCEPT !.colorGrading =
              ExportModal_updateColorGrading(appSettings.colorGrading, "preset", value)])
        /\ done' = ColorEdit("export", "preset", value, appSettings.colorGrading)
    /\ DialogFrame

\* A colour slider of ExportModal
ExportMoveSlider ==
    /\ showExportModal
    /\ \E key \in ColorFields : \E value \in SliderInputs(key) :
        /\ setExportSettings([appSettings EXCEPT !.colorGrading =
              ExportModal_updateColorGrading(appSettings.colorGrading, key, value)])
        /\ done' = ColorEdit("export", key, value, appSettings.colorGrading)
    /\ DialogFrame

\* The settings button of the header; the effect of SettingsModal copies the
\* appSettings when the dialog opens.
OpenSettingsModal ==
    /\ ~showSettingsModal
    /\ showSettingsModal' = TRUE
    /\ localSettings' = appSettings
    /\ done' = NoDone
    /\ UNCHANGED <<appSettings, originalDimensions>>
    /\ DialogFrame

\* Cancel, the cross, the backdrop and Escape of SettingsModal
CloseSettingsModal ==
    /\ showSettingsModal
    /\ showSettingsModal' = FALSE
    /\ done' = NoDone
    /\ UNCHANGED <<appSettings, localSettings, originalDimensions>>
    /\ DialogFrame

\* "Save Changes": handleSave and handleSaveSettings of App
handleSaveSettings ==
    /\ showSettingsModal
    /\ appSettings' = localSettings
    /\ showSettingsModal' = FALSE
    /\ done' = NoDone
    /\ UNCHANGED <<localSettings, originalDimensions>>
    /\ DialogFrame

\* "Reset to Defaults" of SettingsModal
handleReset ==
    /\ showSettingsModal
    /\ setLocalSettings(getDefaultSettings)
    /\ done' = NoDone
    /\ DialogFrame

\* The resolution select of SettingsModal
SettingsSelectResolution ==
    /\ showSettingsModal
    /\ \E value \in ResolutionPresets :
        /\ setLocalSettings([localSettings EXCEPT !.resolution =
              SettingsModal_updateResolution(localSettings.resolution, "preset", value)])
        /\ done' = ResolutionEdit("settings", "preset", value, localSettings.resolution)
    /\ DialogFrame

\* The W and H fields of SettingsModal, rendered under custom; its lock
\* button is disabled.
SettingsEditDimension ==
    /\ showSettingsModal
    /\ localSettings.resolution.preset = "custom"
    /\ \E key \in {"width", "height"}, value \in DimInputs :
        /\ setLocalSettings([localSettings EXCEPT !.resolution =
              SettingsModal_updateResolution(localSettings.resolution, key, value)])
        /\ done' = ResolutionEdit("settings", key, value, localSettings.resolution)
    /\ DialogFrame

\* The colour preset select of SettingsModal
SettingsSelectColorPreset ==
    /\ showSettingsModal
    /\ \E value \in ColorPresets :
        /\ setLocalSettings([localSettings EXCEPT !.colorGrading =
              SettingsModal_updateColorGrading(localSettings.colorGrading, "preset", value)])
        /\ done' = ColorEdit("settings", "preset", value, localSettings.colorGrading)
    /\ DialogFrame

\* A colour slider of SettingsModal
SettingsMoveSlider ==
    /\ showSettingsModal
    /\ \E key \in ColorFields : \E value \in SliderInputs(key) :
        /\ setLocalSettings([localSettings EXCEPT !.colorGrading =
              SettingsModal_updateColorGrading(localSettings.colorGrading, key, value)])
        /\ done' = ColorEdit("settings", key, value, localSettings.colorGrading)
    /\ DialogFrame

\* The dialogs are followed with a generated image on display and the
\* default settings, the resolution and the colour grading each on its own.
InitSettings ==
    /\ history = <<initialTransformState>>
    /\ index = 0
    /\ last = NoCall
    /\ sourceImage = CHOOSE i \in Images : TRUE
    /\ generatedImage = CHOOSE i \in Images : TRUE
    /\ isLoading = FALSE
    /\ isEnhancing = FALSE
    /\ isRemovingBackground = FALSE
    /\ error = NoError
    /\ showExportModal = FALSE
    /\ fin = [f \in 1..MaxFlows |-> NoFlow]
    /\ gen = NoRequest
    /\ rb = NoRequest
    /\ done = NoDone
    /\ isDragging = FALSE
    /\ dragStart = [x |-> 0, y |-> 0]
    /\ transientPosition = initialTransformState.position
    /\ bake = NoBake
    /\ appSettings = getDefaultSettings
    /\ showSettingsModal = FALSE
    /\ localSettings = getDefaultSettings
    /\ originalDimensions = NoDimensions
    /\ exported = NoExport

NextResolution ==
    \/ OpenExportModal \/ CloseExportModal \/ PreviewOnload
    \/ ExportSelectResolution \/ ExportEditDimension \/ ExportToggleLock
    \/ OpenSettingsModal \/ CloseSettingsModal
    \/ handleSaveSettings \/ handleReset
    \/ SettingsSelectResolution \/ SettingsEditDimension

SpecResolution == InitSettings /\ [][NextResolution]_vars

NextColor ==
    \/ OpenExportModal \/ CloseExportModal
    \/ ExportSelectColorPreset \/ ExportMoveSlider
    \/ OpenSettingsModal \/ CloseSettingsModal
    \/ handleSaveSettings \/ handleReset
    \/ SettingsSelectColorPreset \/ SettingsMoveSlider

SpecColor == InitSettings /\ [][NextColor]_vars

\* ------------------------------------------------------------------ claims
IsPrefix(a, b) == Len(a) <= Len(b) /\ a = SubSeq(b, 1, Len(a))
Has(log, e) == \E i \in 1..Len(log) : log[i] = e
FinalizeEnded == done.op \in {"finalize", "lateOnload", "lateOnerror"}
NumInFlight == Cardinality({f \in 1..MaxFlows : fin[f].pc \in InFlight})

\* C2: at most one finalize flow is in flight at any time; while isEnhancing
\* is true no second bake/enhance/export sequence is started.
C2_AtMostOneFinalize == NumInFlight <= 1

\* a flow in flight with its image on display, beside the image element an
\* earlier, timed-out flow has left behind
C2_Witness ==
    /\ NumInFlight = 1
    /\ isEnhancing /\ generatedImage # NoImage
    /\ \E f \in 1..MaxFlows : fin[f].pc = "zombie"

\* C5: in every flow the enhancement is invoked only after the bake has
\* succeeded, the export runs only after the enhancement has returned, and the
\* download is triggered only after the export gave a non-empty encoding:
\* what a flow has done is always a prefix of FullLog.
C5_StrictSequence ==
    /\ \A f \in 1..MaxFlows :
        /\ IsPrefix(fin[f].log, FullLog)
        /\ fin[f].pc = "enhancing" => fin[f].log = SubSeq(FullLog, 1, 2)
        /\ fin[f].pc = "loading" => fin[f].log = SubSeq(FullLog, 1, 3)
    /\ FinalizeEnded => IsPrefix(done.log, FullLog)

\* a flow that ran to the download
C5_Witness == done.op = "finalize" /\ done.outcome = "ok" /\ done.log = FullLog

\* C6, as stated: a flow does not stay in the enhance call beyond the 15 s
\* (one step of the clock is allowed for the timer to run).
C6_EnhanceCallBounded ==
    \A f \in 1..MaxFlows :
        fin[f].pc = "enhancing" => fin[f].elapsed < TimeoutMs + TickMs

\* C6, amended: the 15 s bound is on the load of the enhanced image in step 3.
\* A flow does not stay in that load beyond the 15 s, and it then ends with the
\* timeout error; the flow has got the enhanced image by then.
C6_ImageLoadBounded ==
    /\ \A f \in 1..MaxFlows :
        fin[f].pc = "loading" => fin[f].elapsed < TimeoutMs + TickMs
    /\ (done.op = "finalize" /\ done.outcome = "timeout")
        => (error = "timeout" /\ ~isEnhancing /\ done.log = SubSeq(FullLog, 1, 3))

\* a flow ended by the timer
C6_Witness ==
    /\ done.op = "finalize" /\ done.outcome = "timeout"
    /\ \E f \in 1..MaxFlows : fin[f].pc = "zombie"

\* C7: an attempt that failed with the timeout error performs no export and no
\* download, whatever the image element does afterwards.
C7_TimeoutAborts ==
    (FinalizeEnded /\ done.outcome = "timeout")
        => (~Has(done.log, "exportRun") /\ ~Has(done.log, "download"))

\* C8: each busy flag is true exactly while a flow of its kind is in flight.
C8_BusyFlags ==
    /\ isEnhancing <=> (NumInFlight > 0)
    /\ isLoading <=> (gen.pc = "calling")
    /\ isRemovingBackground <=> (rb.pc = "calling")

\* a finalize attempt that failed while a background removal is still in flight
C8_Witness ==
    /\ done.op = "finalize" /\ done.outcome = "remote"
    /\ ~isEnhancing /\ isRemovingBackground

C10_FailedGenerateKeepsSession ==
    (done.op = "generate" /\ done.outcome = "remote")
        => (generatedImage = done.before.image /\ history = done.before.history
            /\ index = done.before.index)

\* C10, amended: after a generate request failed, the history is the one the
\* session had before the request and the error is set; the generated image is
\* gone, cleared when the request started.
C10_FailedGenerateKeepsHistory ==
    (done.op = "generate" /\ done.outcome = "remote")
        => (history = done.before.history /\ index = done.before.index
            /\ generatedImage = NoImage /\ error = "remote" /\ ~isLoading)

\* a request that failed after an earlier one had given an image with edits
C10_Witness ==
    /\ done.op = "generate" /\ done.outcome = "remote"
    /\ done.before.image # NoImage /\ Len(history) > 1

\* C11: a finalize request whose precondition fails (no generated image, no
\* display container, a container measured with width or height 0) sets the
\* error and attempts nothing: the busy flag is not raised, no flow is started
\* and nothing of a flow is done; a flow is started only with a generated
\* image and a container of positive size.
C11_PreconditionStops ==
    [][ /\ (done'.op = "finalize" /\ done'.outcome = "precondition")
            => /\ generatedImage = NoImage \/ done'.cause \in {"missing", "zero"}
               /\ error' = "precondition"
               /\ isEnhancing' = isEnhancing /\ ~isEnhancing'
               /\ fin' = fin
               /\ done'.log = <<>>
        /\ (done'.op = "finalizeStart")
            => (generatedImage # NoImage /\ done'.container = "ok") ]_vars

\* a request refused for a container of width or height 0, the dialog still
\* open and no flow in flight
C11_Witness ==
    /\ done.op = "finalize" /\ done.outcome = "precondition"
    /\ done.cause = "zero"
    /\ showExportModal /\ NumInFlight = 0 /\ error = "precondition"

\* C15: in a pan drag the mouse-move samples change the transient position
\* alone; a step that starts or continues the drag leaves the snapshots and the
\* pointer as they are, and the step that ends it makes the one commit of the
\* gesture, of the current snapshot with the position the drag ended at.
C15_DragCommitsOnRelease ==
    [][ /\ isDragging' => (history' = history /\ index' = index)
        /\ (isDragging /\ transientPosition' # transientPosition)
            => (isDragging' /\ dragStart' = dragStart /\ last'.op = "none")
        /\ (isDragging /\ ~isDragging')
            => LET final == [state EXCEPT !.position = transientPosition]
               IN  /\ last'.op = "setState" /\ last'.arg = final
                   /\ IF JSONstringify(final) = JSONstringify(state)
                      THEN history' = history /\ index' = index
                      ELSE /\ history' = Append(SubSeq(history, 1, index + 1), final)
                           /\ index' = index + 1 ]_vars

\* a release that committed a position the image was dragged to
C15_Witness ==
    /\ ~isDragging /\ last.op = "setState"
    /\ last.arg.position # HeadOf(last).position
    /\ last.arg.zoom = HeadOf(last).zoom
    /\ state = last.arg /\ transientPosition = state.position
    /\ index = last.index + 1

\* C16: the step in which a generate request succeeds, and with it every step
\* that puts a new generated image on display, resets the history to the one
\* snapshot {zoom: 1, rotation: 0, position: {0, 0}}; every other change of
\* the history is made while an image is on display and leaves that image in
\* place, so no image is shown with edits made on an earlier one.
C16_NewImageResetsTransform ==
    [][ /\ ( \/ (done'.op = "generate" /\ done'.outcome = "ok")
             \/ (generatedImage' # generatedImage /\ generatedImage' # NoImage) )
            => /\ generatedImage' # NoImage
               /\ history' = <<Transform(100, 0, 0, 0)>>
               /\ index' = 0
               /\ last'.op = "reset"
        /\ ( /\ (history' # history \/ index' # index)
             /\ ~(history' = <<initialTransformState>> /\ index' = 0) )
            => (generatedImage # NoImage /\ generatedImage' = generatedImage) ]_vars

\* a generation that succeeded when the history still held the edits made on
\* the image before
C16_Witness ==
    /\ done.op = "generate" /\ done.outcome = "ok"
    /\ done.before.image # NoImage
    /\ Len(done.before.history) > 1 /\ done.before.index > 0
    /\ generatedImage # NoImage /\ Len(history) = 1

\* C17: every snapshot of the history has zoom >= 1, whatever the zoom
\* buttons, the slider, the quarter turns, the drags, undo, redo and reset did.
C17_ZoomAtLeastOne ==
    \A i \in 1..Len(history) : history[i].zoom >= 100

\* the zoom-out button clicked at zoom 1, after a zoom-in was undone
C17_Witness ==
    /\ last.op = "setState"
    /\ HeadOf(last).zoom = 100 /\ last.arg.zoom = 100
    /\ last.arg = HeadOf(last)
    /\ last.index < Len(last.history) - 1
    /\ \E i \in 1..Len(history) : history[i].zoom > 100

\* C18: every snapshot of the history has its rotation in 0 <= rotation < 360.
C18_RotationNormalized ==
    \A i \in 1..Len(history) :
        history[i].rotation >= 0 /\ history[i].rotation < 360

\* the fourth quarter turn
C18_Witness ==
    /\ last.op = "setState"
    /\ HeadOf(last).rotation = 270 /\ last.arg.rotation = 0
    /\ state.rotation = 0 /\ Len(history) >= 5

\* C19: applyTransformationsToImage called with a container of width <= 0 or
\* height <= 0 fails with the error of the invalid container, and no Image was
\* given the source to decode.
C19_ViewportPrecondition ==
    (bake.pc # "idle"
        /\ (bake.containerSize.width <= 0 \/ bake.containerSize.height <= 0))
    => (bake.pc = "settled" /\ bake.outcome = "viewport" /\ ~bake.decode)

\* a call with a container of positive width and height 0
C19_Witness ==
    /\ bake.pc = "settled" /\ bake.outcome = "viewport"
    /\ bake.containerSize.present
    /\ bake.containerSize.width > 0 /\ bake.containerSize.height = 0

\* C20: when applyTransformationsToImage succeeds on an image decoded with
\* natural size (W, H), the image it gives has size (W, H), for every
\* transform state and every container.
C20_OutputHasNaturalSize ==
    (bake.pc = "settled" /\ bake.outcome = "ok")
    => /\ bake.output = bake.natural
       /\ bake.natural.width > 0 /\ bake.natural.height > 0

\* a success on an image that is neither of the size nor of the shape of the
\* container, with a zoom and a quarter turn
C20_Witness ==
    /\ bake.pc = "settled" /\ bake.outcome = "ok"
    /\ bake.natural.width # bake.containerSize.width
    /\ bake.natural.height # bake.containerSize.height
    /\ bake.natural.width * bake.containerSize.height
         # bake.containerSize.width * bake.natural.height
    /\ bake.transformState.zoom > 100 /\ bake.transformState.rotation = 90

\* Two fractions with positive denominators are the same number.
FracEq(a, b) == a.num * b.den = b.num * a.den

\* C21: the bake converts the pan from screen pixels into natural pixels with
\* scaleFactor = W / renderedWidth, where renderedWidth is the width of the
\* container when W/H > width/height of the container and height * W/H
\* otherwise; the second translation of the canvas is (position.x *
\* scaleFactor, position.y * scaleFactor).  For the 2400x3200 image in the
\* 300x400 container with position (20, -10): scaleFactor 8, translation
\* (160, -80).
C21_PanInNaturalPixels ==
    (bake.pc = "settled" /\ bake.outcome = "ok") =>
        LET W == bake.natural.width
            H == bake.natural.height
            viewport == bake.containerSize
            position == bake.transformState.position
            renderedWidth ==
                IF W * viewport.height > viewport.width * H
                THEN Frac(viewport.width, 1)
                ELSE Frac(viewport.height * W, H)
        IN  /\ bake.scaleFactor.den > 0
            /\ bake.scaleFactor.num * renderedWidth.num
                  = W * renderedWidth.den * bake.scaleFactor.den
            /\ bake.translate.x.num * bake.scaleFactor.den
                  = position.x * bake.scaleFactor.num * bake.translate.x.den
            /\ bake.translate.y.num * bake.scaleFactor.den
                  = position.y * bake.scaleFactor.num * bake.translate.y.den
            /\ ( /\ bake.natural = Scenario.natural
                 /\ viewport = Scenario.containerSize
                 /\ bake.transformState = Scenario.transformState )
               => /\ FracEq(bake.scaleFactor, Frac(8, 1))
                  /\ FracEq(bake.translate.x, Frac(160, 1))
                  /\ FracEq(bake.translate.y, Frac(-80, 1))

\* the 2400x3200 image baked from the 300x400 container with the pan (20, -10)
C21_Witness ==
    /\ bake.pc = "settled" /\ bake.outcome = "ok"
    /\ bake.natural = Scenario.natural
    /\ bake.containerSize = Scenario.containerSize
    /\ bake.transformState = Scenario.transformState
    /\ FracEq(bake.scaleFactor, Frac(8, 1))
    /\ FracEq(bake.translate.x, Frac(160, 1))
    /\ FracEq(bake.translate.y, Frac(-80, 1))

\* The integer c is Math.round of the fraction q: c - 1/2 <= q < c + 1/2.
IsRounded(c, q) ==
    /\ (2 * c - 1) * q.den <= 2 * q.num
    /\ 2 * q.num < (2 * c + 1) * q.den

\* The long edge of the target is "edge" and the short one follows from the
\* aspect ratio of the image.
IsLongEdge(e, edge) ==
    IF e.natural.width >= e.natural.height
    THEN /\ FracEq(e.targetWidth, Frac(edge, 1))
         /\ e.targetHeight.num * e.natural.width
               = edge * e.natural.height * e.targetHeight.den
    ELSE /\ FracEq(e.targetHeight, Frac(edge, 1))
         /\ e.targetWidth.num * e.natural.height
               = edge * e.natural.width * e.targetWidth.den

\* The target is w x h.
IsTarget(e, w, h) ==
    FracEq(e.targetWidth, Frac(w, 1)) /\ FracEq(e.targetHeight, Frac(h, 1))

\* |target_AR - original_AR| > 0.01, for a target of integer sides
OffAspect(e) ==
    LET d == e.targetWidth.num * e.natural.height
               - e.natural.width * e.targetHeight.num
    IN  100 * (IF d < 0 THEN -d ELSE d) > e.targetHeight.num * e.natural.height

\* The rows of the table that are the same in the statement and in the program.
TargetRows(e) ==
    /\ e.resolution.preset = "original"
         => IsTarget(e, e.natural.width, e.natural.height) /\ ~e.requiresCropping
    /\ e.resolution.preset = "hd"
         => IsLongEdge(e, 1920) /\ ~e.requiresCropping
    /\ e.resolution.preset = "4k"
         => IsLongEdge(e, 3840) /\ ~e.requiresCropping
    /\ e.resolution.preset = "square"
         => IsTarget(e, 1080, 1080) /\ e.requiresCropping
    /\ e.resolution.preset = "portrait"
         => IsTarget(e, 1080, 1920) /\ e.requiresCropping
    /\ e.resolution.preset = "landscape"
         => IsTarget(e, 1920, 1080) /\ e.requiresCropping
    /\ IsRounded(e.canvas.width, e.targetWidth)
    /\ IsRounded(e.canvas.height, e.targetHeight)
    /\ (e.natural = [width |-> 3000, height |-> 2000] /\ e.resolution.preset = "hd")
         => /\ e.canvas = [width |-> 1920, height |-> 1280]
            /\ ~e.requiresCropping

\* C22 as stated: the target resolved from the preset matches the table for
\* every source size, where custom uses the configured width and height and
\* falls back to the original for a null value, and crops exactly when
\* |target_AR - original_AR| > 0.01; the canvas is round(targetWidth) x
\* round(targetHeight).
C22_NullFallbackOnly ==
    exported.pc = "drawn" =>
        /\ TargetRows(exported)
        /\ exported.resolution.preset = "custom"
             => /\ IsTarget(exported,
                     IF exported.resolution.width.isNull
                     THEN exported.natural.width ELSE exported.resolution.width.n,
                     IF exported.resolution.height.isNull
                     THEN exported.natural.height ELSE exported.resolution.height.n)
                /\ exported.requiresCropping <=> OffAspect(exported)

\* C22: the target resolved from the preset matches the table for every
\* source size: original keeps (W, H) without cropping; hd and 4k set the long
\* edge to 1920 / 3840 and derive the short one from the aspect ratio, without
\* cropping; square, portrait and landscape give 1080x1080, 1080x1920 and
\* 1920x1080 with cropping; custom uses the configured width and height,
\* falling back to the original for a value that is null or 0, and crops
\* exactly when |target_AR - original_AR| > 0.01.  The canvas is
\* round(targetWidth) x round(targetHeight); 3000x2000 with hd gives 1920x1280
\* without cropping.
C22_TargetTable ==
    exported.pc = "drawn" =>
        /\ TargetRows(exported)
        /\ exported.resolution.preset = "custom"
             => /\ IsTarget(exported,
                     IF exported.resolution.width.isNull
                          \/ exported.resolution.width.n = 0
                     THEN exported.natural.width ELSE exported.resolution.width.n,
                     IF exported.resolution.height.isNull
                          \/ exported.resolution.height.n = 0
                     THEN exported.natural.height ELSE exported.resolution.height.n)
                /\ exported.requiresCropping <=> OffAspect(exported)

\* the 3000x2000 image exported with hd
C22_Witness ==
    /\ exported.pc = "drawn"
    /\ exported.natural = [width |-> 3000, height |-> 2000]
    /\ exported.resolution.preset = "hd"
    /\ exported.canvas = [width |-> 1920, height |-> 1280]
    /\ ~exported.requiresCropping

\* C23: when cropping is required the source rectangle is centered and has
\* the aspect ratio of the target: for a source wider than the target, width
\* sourceHeight * targetAR at the offset (sourceWidth - width) / 2 and the
\* full height; for a narrower one, height sourceWidth / targetAR at the
\* offset (sourceHeight - height) / 2 and the full width.  3000x2000 with
\* square: 2000 wide at x 500; 2400x3200 with portrait: 1800 wide at x 300,
\* output 1080x1920.
C23_CenteredCrop ==
    (exported.pc = "drawn" /\ exported.requiresCropping) =>
        LET W == exported.natural.width
            H == exported.natural.height
            TW == exported.targetWidth.num
            TH == exported.targetHeight.num
            r == exported.source
        IN  /\ exported.targetWidth.den = 1 /\ exported.targetHeight.den = 1
            /\ W * TH > TW * H
                 => /\ r.sWidth.num * TH = H * TW * r.sWidth.den
                    /\ 2 * r.sx.num * r.sWidth.den + r.sWidth.num * r.sx.den
                          = W * r.sx.den * r.sWidth.den
                    /\ FracEq(r.sy, Frac(0, 1)) /\ FracEq(r.sHeight, Frac(H, 1))
            /\ W * TH < TW * H
                 => /\ r.sHeight.num * TW = W * TH * r.sHeight.den
                    /\ 2 * r.sy.num * r.sHeight.den + r.sHeight.num * r.sy.den
                          = H * r.sy.den * r.sHeight.den
                    /\ FracEq(r.sx, Frac(0, 1)) /\ FracEq(r.sWidth, Frac(W, 1))
            /\ r.sWidth.num * r.sHeight.den * TH
                  = TW * r.sHeight.num * r.sWidth.den
            /\ (W = 3000 /\ H = 2000 /\ exported.resolution.preset = "square")
                 => FracEq(r.sWidth, Frac(2000, 1)) /\ FracEq(r.sx, Frac(500, 1))
            /\ (W = 2400 /\ H = 3200 /\ exported.resolution.preset = "portrait")
                 => /\ FracEq(r.sWidth, Frac(1800, 1))
                    /\ FracEq(r.sx, Frac(300, 1))
                    /\ exported.canvas = [width |-> 1080, height |-> 1920]

\* the 2400x3200 image exported with portrait
C23_Witness ==
    /\ exported.pc = "drawn" /\ exported.requiresCropping
    /\ exported.natural = [width |-> 2400, height |-> 3200]
    /\ exported.resolution.preset = "portrait"
    /\ FracEq(exported.source.sWidth, Frac(1800, 1))
    /\ FracEq(exported.source.sx, Frac(300, 1))
    /\ exported.canvas = [width |-> 1080, height |-> 1920]

\* a + b <= n for two fractions and an integer
SumAtMost(a, b, n) == a.num * b.den + b.num * a.den <= n * a.den * b.den

\* C30: for every source size (W, H) with W, H > 0 and every target canvas
\* with positive sides, the rectangle of a cropping export lies inside the
\* source (sx >= 0, sy >= 0, sx + sWidth <= W, sy + sHeight <= H) and
\* shrinks at most one dimension (sWidth = W or sHeight = H).
C30_CropInsideSource ==
    ( /\ exported.pc = "drawn" /\ exported.requiresCropping
      /\ exported.canvas.width > 0 /\ exported.canvas.height > 0 ) =>
        LET W == exported.natural.width
            H == exported.natural.height
            r == exported.source
        IN  /\ W > 0 /\ H > 0
            /\ r.sx.num >= 0 /\ r.sy.num >= 0
            /\ r.sWidth.num > 0 /\ r.sHeight.num > 0
            /\ SumAtMost(r.sx, r.sWidth, W)
            /\ SumAtMost(r.sy, r.sHeight, H)
            /\ FracEq(r.sWidth, Frac(W, 1)) \/ FracEq(r.sHeight, Frac(H, 1))

\* a portrait image exported with landscape: the crop shortens the height
C30_Witness ==
    /\ exported.pc = "drawn" /\ exported.requiresCropping
    /\ exported.natural = [width |-> 2400, height |-> 3200]
    /\ exported.resolution.preset = "landscape"
    /\ FracEq(exported.source.sHeight, Frac(1350, 1))
    /\ FracEq(exported.source.sy, Frac(925, 1))
    /\ FracEq(exported.source.sWidth, Frac(2400, 1))

\* The resolution the dialog of the last edit shows.
Edited ==
    IF done.dialog = "export" THEN appSettings.resolution
    ELSE localSettings.resolution

\* The last step edited a custom dimension with the lock enabled.
LockedEdit ==
    /\ done.op = "updateResolution"
    /\ done.key \in {"width", "height"}
    /\ done.before.preset = "custom"
    /\ done.before.aspectRatioLocked

\* v is the number round(q), or null
IsRoundedNumber(v, q) == ~v.isNull /\ IsRounded(v.n, q)

\* C24 as stated: under custom with the lock enabled, every edit of one
\* dimension recomputes the other from the aspect ratio of the original
\* image (1200x800: width 600 gives height 400, height 300 gives width 450).
C24_EveryLockedEdit ==
    (LockedEdit /\ Truthy(done.value)) =>
        LET original == ImageSize(generatedImage)
        IN  /\ done.key = "width"
                 => /\ Edited.width = done.value
                    /\ IsRoundedNumber(Edited.height,
                          Frac(done.value.n * original.height, original.width))
            /\ done.key = "height"
                 => /\ Edited.height = done.value
                    /\ IsRoundedNumber(Edited.width,
                          Frac(done.value.n * original.width, original.height))

\* C24: under custom with the lock enabled, an edit of one dimension in the
\* export dialog, made when the dialog has loaded the size of the image,
\* recomputes the other from the aspect ratio of that size: round(width / AR),
\* round(height * AR), and null for a value that is empty or 0 (1200x800:
\* width 600 gives height 400, height 300 gives width 450).  An edit made
\* before the size is loaded, and every edit in the settings dialog, leaves
\* the other dimension as it was.
C24_LockedEditInExportDialog ==
    LockedEdit =>
        LET original == done.dimensions
            other == IF done.key = "width" THEN "height" ELSE "width"
            ratio == IF done.key = "width"
                     THEN Frac(done.value.n * original.height, original.width)
                     ELSE Frac(done.value.n * original.width, original.height)
        IN  /\ Edited[done.key] = done.value
            /\ Edited.preset = "custom" /\ Edited.aspectRatioLocked
            /\ IF done.dialog = "export" /\ original.known
               THEN IF Truthy(done.value)
                    THEN IsRoundedNumber(Edited[other], ratio)
                    ELSE Edited[other] = null
               ELSE Edited[other] = done.before[other]
            /\ ( /\ done.dialog = "export" /\ original.known
                 /\ original.width = 1200 /\ original.height = 800 )
               => /\ (done.key = "width" /\ done.value = Number(600))
                       => Edited.height = Number(400)
                  /\ (done.key = "height" /\ done.value = Number(300))
                       => Edited.width = Number(450)

\* height 300 typed in the export dialog for the 1200x800 image
C24_Witness ==
    /\ LockedEdit
    /\ done.dialog = "export"
    /\ done.dimensions = [known |-> TRUE, width |-> 1200, height |-> 800]
    /\ done.key = "height" /\ done.value = Number(300)
    /\ appSettings.resolution.width = Number(450)
    /\ appSettings.resolution.height = Number(300)

\* The colour grading the dialog of the last edit shows.
Graded ==
    IF done.dialog = "export" THEN appSettings.colorGrading
    ELSE localSettings.colorGrading

\* C25: selecting a named colour preset overwrites saturation, contrast,
\* brightness and warmth with the values of the preset and sets preset to
\* its name (vivid: 150/110/100/5); editing one numeric field sets preset to
\* custom and the field to the new value, and leaves the other three numeric
\* fields unchanged.
C25_PresetAndCustom ==
    done.op = "updateColorGrading" =>
        /\ done.key = "preset"
             => /\ Graded.preset = done.value
                /\ \A f \in ColorFields : Graded[f] = PRESET_VALUES[done.value][f]
                /\ done.value = "vivid"
                     => Graded = [preset |-> "vivid", saturation |-> 150,
                                  contrast |-> 110, brightness |-> 100,
                                  warmth |-> 5]
        /\ done.key \in ColorFields
             => /\ Graded.preset = "custom"
                /\ Graded[done.key] = done.value
                /\ \A f \in ColorFields \ {done.key} : Graded[f] = done.before[f]

\* saturation moved to 140 after vivid was selected
C25_Witness ==
    /\ done.op = "updateColorGrading"
    /\ done.key = "saturation" /\ done.value = 140
    /\ done.before.preset = "vivid"
    /\ Graded = [preset |-> "custom", saturation |-> 140, contrast |-> 110,
                 brightness |-> 100, warmth |-> 5]

\* C26: starting from the default settings, after any sequence of resolution
\* edits offered by the export and the settings dialog, width and height are
\* non-null only while preset is custom; selecting a preset other than
\* custom sets both to null.
C26_SizeOnlyUnderCustom ==
    /\ \A res \in {appSettings.resolution, localSettings.resolution} :
          res.preset # "custom" => (res.width = null /\ res.height = null)
    /\ ( /\ done.op = "updateResolution"
         /\ done.key = "preset" /\ done.value # "custom" )
       => /\ Edited.preset = done.value
          /\ Edited.width = null /\ Edited.height = null

\* a preset selected in the settings dialog over a custom size
C26_Witness ==
    /\ done.op = "updateResolution" /\ done.dialog = "settings"
    /\ done.key = "preset" /\ done.value = "hd"
    /\ done.before.preset = "custom"
    /\ ~done.before.width.isNull /\ ~done.before.height.isNull
    /\ localSettings.resolution.width = null

\* How many times e is in the log.
Count(log, e) == Cardinality({i \in 1..Len(log) : log[i] = e})

\* C27: no remote call is made a second time without a new user action: a
\* finalize attempt invokes the enhancement at most once, and when it fails
\* the attempt ends with no flow left in flight; a generate request that
\* fails ends with no call outstanding and no image; a call to the
\* generation is outstanding only while the request of a click runs.
C27_NoAutomaticRetry ==
    /\ \A f \in 1..MaxFlows : Count(fin[f].log, "enhanceInvoked") <= 1
    /\ FinalizeEnded => Count(done.log, "enhanceInvoked") <= 1
    /\ (done.op = "finalize" /\ done.outcome = "remote")
         => /\ ~isEnhancing
            /\ NumInFlight = 0
            /\ Count(done.log, "enhanceInvoked") = 1
    /\ (done.op = "generate" /\ done.outcome = "remote")
         => /\ gen = NoRequest
            /\ ~isLoading
            /\ generatedImage = NoImage
    /\ gen.pc = "calling" => isLoading

\* a finalize attempt ended by the failure of the enhancement
C27_Witness ==
    /\ done.op = "finalize" /\ done.outcome = "remote"
    /\ done.log = <<"bakeDone", "enhanceInvoked">>
    /\ error = "remote"
    /\ ~isEnhancing /\ NumInFlight = 0

\* C28: no two adjacent snapshots of the history are deep-equal, after any
\* sequence of setState, undo, redo and reset from one snapshot.
C28_NoAdjacentDuplicates ==
    \A i \in 1..(Len(history) - 1) :
        /\ history[i] # history[i + 1]
        /\ JSONstringify(history[i]) # JSONstringify(history[i + 1])

\* a commit of the value of the head, on a history whose first and third
\* snapshots are equal
C28_Witness ==
    /\ last.op = "setState"
    /\ last.arg = HeadOf(last)
    /\ Len(history) = 3
    /\ history[1] = history[3]
    /\ history = last.history

\* C29: undo and redo are inverse moves of the pointer: an undo made when
\* canUndo holds, followed by a redo, gives back the pointer, the current
\* state and the snapshots the undo was made on; so does a redo made when
\* canRedo holds, followed by an undo.
C29_UndoRedoInverse ==
    [][ /\ ( /\ last.op = "undo" /\ last.index > 0
             /\ last'.op = "redo" )
           => /\ index' = last.index
              /\ history' = last.history
              /\ state' = HeadOf(last)
        /\ ( /\ last.op = "redo" /\ last.index < Len(last.history) - 1
             /\ last'.op = "undo" )
           => /\ index' = last.index
              /\ history' = last.history
              /\ state' = HeadOf(last) ]_vars

\* a redo that moved the pointer from the first of three snapshots: it was
\* made after an undo, since a commit or a reset leaves nothing to redo
C29_Witness ==
    /\ last.op = "redo"
    /\ last.index = 0
    /\ index = 1
    /\ Len(history) = 3
    /\ history = last.history

====
